---------------------------- MODULE Spec2Model ----------------------------
(***************************************************************************)
(* A model of tinydb's in-memory B+tree node engine (node.go) and of the   *)
(* page layout it serialises to (page.go), with the allocator of db.go.    *)
(*                                                                         *)
(* Byte strings ([]byte) are sequences of naturals below 256.  Go's nil    *)
(* slice and the empty slice are both <<>>: bytes.Compare, bytes.Equal and *)
(* len do not tell them apart.  Go's indices are 0-based and are kept so;  *)
(* a sequence s is read at s[i + 1].                                       *)
(***************************************************************************)
EXTENDS Integers, Sequences, FiniteSets, TLC

VARIABLES
    n,       \* a stand-alone node, as node{inodes: make(inodes, 0)}
    pre,     \* that node as it was before the last operation on it
    last,    \* the last operation on it and its arguments
    hist,    \* "puts": only put(k, k, v, 0, 0) so far; "edits": those and del(k); "keyed": any put
    ops,     \* number of operations applied to the stand-alone node
    pg,      \* the page buffer the node was last written to
    wn,      \* the node as it was when it was written to pg
    rn,      \* the node last read back from pg
    arena,   \* the nodes of the bucket of a write transaction
    bucket,  \* that bucket: FillPercent, the node map (page id to node), rootNode
    db,      \* the database: pageSize, datasz, filesz, freelist, mapped pages
    tx,      \* the transaction: meta, dirty pages, stats
    phase,   \* "open", then what spill came to: "done", "error", "panic"
    slog,    \* the allocations, splits and parent updates of the spill
    calls,   \* the number of calls of spill the spill made
    edits,   \* number of keys put or deleted in the transaction
    stack    \* the calls of spill in progress when spill is followed step by step

(* the stand-alone node; with it, what an operation that is made in one    *)
(* step leaves alone                                                       *)
aloneVars == <<n, pre, last, hist, ops, pg, wn, rn>>
nodeVars == <<n, pre, last, hist, ops, pg, wn, rn, stack>>
treeVars == <<arena, bucket, db, tx, phase, slog, calls, edits>>
vars == <<n, pre, last, hist, ops, pg, wn, rn, arena, bucket, db, tx, phase, slog, calls, edits,
          stack>>

---------------------------------------------------------------------------
(* Bounds of the model *)

MaxKey == 4      \* one-byte keys <<1>> .. <<MaxKey>>
MaxOps == 5      \* operations applied to the stand-alone node
MaxTreeKey == 8  \* keys <<1>> .. <<MaxTreeKey>> put into and deleted from a tree
MaxEdits == 3    \* keys put or deleted before the tree is spilled
MaxSpillCalls == 16  \* calls of spill one spill of the root may make
MaxRebalances == 3   \* calls of rebalance after the edits, those on parents included
MaxNodes == 3        \* nodes materialized while the data file is remapped
MaxDerefs == 2       \* calls of dereference from outside, those of Db.mmap included
MaxCount == 3        \* pages asked of Db.allocate in one call
MaxAllocations == 4  \* calls of Db.allocate in one transaction
MaxPgid == 2         \* high-water marks 0 .. MaxPgid of the metas that are summed and validated
MaxOpens == 3        \* calls of Open on one path
MaxSizes == 2        \* calls of Db.mmapSize that are compared
MaxIds == 3          \* length of a pgids slice that is merged
MaxId == 3           \* page ids 1 .. MaxId in those slices
MaxInodes == 6       \* entries of a node whose split index is taken
MaxThreshold == 140  \* thresholds up to the size of such a node
MaxTxid == 1         \* txids 0 .. MaxTxid of those metas

(* Program constants *)
tinyDBVersion == 1
metaReadSize == 4069   \* var buf [4069]byte in Open
defaultPageSize == 4096  \* os.Getpagesize()
textLineSize == 30       \* len("this is not a tinydb database\n")
checksumOffset == 24     \* unsafe.Offsetof(meta{}.checksum): version 4, pageSize 4, pgid 8, txid 8

branchPageFlag == 1
leafPageFlag == 2
metaPageFlag == 4
freelistPageFlag == 16
pageHeaderSize == 24          \* unsafe.Sizeof(page{}): id 8, flags 2, count 2, overflow 4, ptr 8
branchPageElementSize == 16   \* unsafe.Sizeof(branchPageElement{})
leafPageElementSize == 16     \* unsafe.Sizeof(leafPageElement{})
minKeysPerPage == 2
minFillPercent == 10          \* 0.1, in percent
maxFillPercent == 100         \* 1.0, in percent
minMmapShift == 15            \* the mapping is at least 1 << 15 bytes
maxMmapShift == 30            \* and doubles up to 1 << 30: maxMmapStep
maxMapShift == 48             \* maxMapSize = 0xFFFFFFFFFFFF = 1 << 48 - 1

Keys == {<<k>> : k \in 1..MaxKey}
LeafKeys == {<<>>} \cup Keys       \* put takes any []byte, the empty one too
Values == {<<>>, <<1>>}

(* uint16(x).  uint32(x) is x itself here: the checker's integers are 32    *)
(* bits wide and no length or offset of the model comes near 2^31.         *)
Uint16(x) == x % 65536
Uint32(x) == x

---------------------------------------------------------------------------
(* bytes.Compare and bytes.Equal *)

RECURSIVE bytesCompare(_, _)
bytesCompare(a, b) ==
    IF a = <<>> /\ b = <<>> THEN 0
    ELSE IF a = <<>> THEN -1
    ELSE IF b = <<>> THEN 1
    ELSE IF Head(a) < Head(b) THEN -1
    ELSE IF Head(a) > Head(b) THEN 1
    ELSE bytesCompare(Tail(a), Tail(b))

bytesEqual(a, b) == bytesCompare(a, b) = 0

(* the sequence <<f[1], ..., f[k]>> of a function on 1..k, element by element *)
RECURSIVE tuple(_, _)
tuple(f, k) == IF k = 0 THEN <<>> ELSE Append(tuple(f, k - 1), f[k])

(* sort.Search(len(inodes), func(i) { return bytes.Compare(inodes[i].key, key) >= 0 }) *)
(* run as the library runs it: a binary search that trusts the order.      *)
RECURSIVE searchFrom(_, _, _, _)
searchFrom(inodes, key, i, j) ==
    IF i < j
    THEN LET h == (i + j) \div 2 IN
         IF ~(bytesCompare(inodes[h + 1].key, key) >= 0)
         THEN searchFrom(inodes, key, h + 1, j)
         ELSE searchFrom(inodes, key, i, h)
    ELSE i

searchKey(inodes, key) == searchFrom(inodes, key, 0, Len(inodes))

---------------------------------------------------------------------------
(* inode and node.put / node.del *)

emptyInode == [flags |-> 0, pgid |-> 0, key |-> <<>>, value |-> <<>>]

(* copy(s[1:], s[0:]): every element moves one place right, s[0] stays *)
copyShiftRight(s) == tuple([i \in 1..Len(s) |-> IF i = 1 THEN s[1] ELSE s[i - 1]], Len(s))

(* put as it would be if it did not store the page id of the entry *)
putWithoutPgid(nd, oldKey, key, value, pgid, flags) ==
    LET idx == searchKey(nd.inodes, oldKey)
        present == idx < Len(nd.inodes) /\ bytesEqual(nd.inodes[idx + 1].key, key)
        grown == IF present THEN nd.inodes
                 ELSE LET a == Append(nd.inodes, emptyInode)
                      IN IF idx = 0 THEN copyShiftRight(a) ELSE a
    IN [nd EXCEPT !.inodes = [grown EXCEPT ![idx + 1] =
                [flags |-> flags, pgid |-> 0, key |-> key, value |-> value]]]

put(nd, oldKey, key, value, pgid, flags) ==
    LET idx == searchKey(nd.inodes, oldKey)
        present == idx < Len(nd.inodes) /\ bytesEqual(nd.inodes[idx + 1].key, key)
        grown == IF present THEN nd.inodes
                 ELSE LET a == Append(nd.inodes, emptyInode)
                      IN IF idx = 0 THEN copyShiftRight(a) ELSE a
    IN [nd EXCEPT !.inodes =
            [grown EXCEPT ![idx + 1] =
                [flags |-> flags, pgid |-> pgid, key |-> key, value |-> value]]]

removeAt(s, index) == SubSeq(s, 1, index) \o SubSeq(s, index + 2, Len(s))

del(nd, key) ==
    LET index == searchKey(nd.inodes, key)
    IN IF index >= Len(nd.inodes) \/ ~bytesEqual(nd.inodes[index + 1].key, key)
       THEN nd
       ELSE [nd EXCEPT !.inodes = removeAt(nd.inodes, index), !.unbalanced = TRUE]

---------------------------------------------------------------------------
(* page, leafPageElement, branchPageElement; node.write / node.read.       *)
(* A page is its header fields, the element directory that starts at       *)
(* pageHeaderSize (elems, one typed element per slot) and the bytes of the *)
(* buffer behind the directory (mem, by offset from the start of the page; *)
(* an offset outside DOMAIN mem was never written and still holds 0).      *)

ZeroPage == [id |-> 0, flags |-> 0, count |-> 0, overflow |-> 0,
             elems |-> <<>>, mem |-> <<>>]

pageElementSize(nd) ==
    IF nd.isLeaf THEN leafPageElementSize ELSE branchPageElementSize

(* a | flag, for a one-bit flag *)
BitOr(a, flag) == IF (a \div flag) % 2 = 1 THEN a ELSE a + flag
(* (a & flag) != 0 *)
BitTest(a, flag) == (a \div flag) % 2 = 1

dataLen(item) == Len(item.key) + Len(item.value)

RECURSIVE sumData(_, _)
sumData(inodes, k) ==
    IF k = 0 THEN 0 ELSE sumData(inodes, k - 1) + dataLen(inodes[k])

RECURSIVE blobOf(_, _)
blobOf(inodes, k) ==
    IF k = 0 THEN <<>>
    ELSE blobOf(inodes, k - 1) \o inodes[k].key \o inodes[k].value

(* the address of element idx of the directory, from the start of the page *)
elemAddr(elsz, idx) == pageHeaderSize + Uint16(idx) * elsz

(* &pageElemData[0] of a slice of length 0 is an index out of range: the   *)
(* loop panics at the first item whose key and value are both empty.       *)
firstEmptyItem(inodes) ==
    IF \E i \in 1..Len(inodes) : dataLen(inodes[i]) = 0
    THEN (CHOOSE i \in 1..Len(inodes) :
             /\ dataLen(inodes[i]) = 0
             /\ \A j \in 1..(i - 1) : dataLen(inodes[j]) # 0) - 1
    ELSE Len(inodes)

writeElem(nd, idx) ==
    LET item == nd.inodes[idx + 1]
        elsz == pageElementSize(nd)
        pageElemDataOffset == pageHeaderSize + elsz * Len(nd.inodes)
                                  + sumData(nd.inodes, idx)
        pos == Uint32(pageElemDataOffset - elemAddr(elsz, idx))
    IN IF nd.isLeaf
       THEN [flags |-> item.flags, pos |-> pos,
             ksize |-> Uint32(Len(item.key)), vsize |-> Uint32(Len(item.value))]
       ELSE [pos |-> pos, ksize |-> Uint32(Len(item.key)), pgid |-> item.pgid]

write(p, nd) ==
    LET flags == IF nd.isLeaf THEN BitOr(p.flags, leafPageFlag)
                 ELSE BitOr(p.flags, branchPageFlag)
        count == Uint16(Len(nd.inodes))
        done == firstEmptyItem(nd.inodes)
        base == pageHeaderSize + pageElementSize(nd) * Len(nd.inodes)
        blob == blobOf(nd.inodes, done)
    IN IF count = 0
       THEN [ok |-> TRUE, page |-> [p EXCEPT !.flags = flags, !.count = count]]
       ELSE [ok |-> done = Len(nd.inodes),
             page |-> [p EXCEPT !.flags = flags, !.count = count,
                          !.elems = tuple([i \in 1..done |-> writeElem(nd, i - 1)], done),
                          !.mem = [off \in base..(base + Len(blob) - 1) |->
                                      blob[off - base + 1]]]]

readBytes(p, addr, len) ==
    tuple([i \in 1..len |-> IF (addr + i - 1) \in DOMAIN p.mem
                            THEN p.mem[addr + i - 1] ELSE 0], len)

leafPageElement(p, index) ==
    IF index + 1 \in DOMAIN p.elems THEN p.elems[index + 1]
    ELSE [flags |-> 0, pos |-> 0, ksize |-> 0, vsize |-> 0]

branchPageElement(p, index) ==
    IF index + 1 \in DOMAIN p.elems THEN p.elems[index + 1]
    ELSE [pos |-> 0, ksize |-> 0, pgid |-> 0]

readInode(p, isLeaf, i) ==
    IF isLeaf
    THEN LET elem == leafPageElement(p, Uint16(i))
             addr == elemAddr(leafPageElementSize, i)
         IN [flags |-> elem.flags, pgid |-> 0,
             key |-> readBytes(p, addr + elem.pos, elem.ksize),
             value |-> readBytes(p, addr + Uint32(elem.ksize + elem.pos), elem.vsize)]
    ELSE LET elem == branchPageElement(p, Uint16(i))
             addr == elemAddr(branchPageElementSize, i)
         IN [flags |-> 0, pgid |-> elem.pgid,
             key |-> readBytes(p, addr + elem.pos, elem.ksize),
             value |-> <<>>]

read(nd, p) ==
    LET isLeaf == BitTest(p.flags, leafPageFlag)
    IN [nd EXCEPT !.isLeaf = isLeaf,
                  !.inodes = tuple([i \in 1..p.count |-> readInode(p, isLeaf, i - 1)],
                                   p.count)]

---------------------------------------------------------------------------
(* node.size, node.sizeLessThan, node.splitIndex *)

(* the serialized size of the first k inodes, page header included *)
prefixSize(nd, k) == pageHeaderSize + k * pageElementSize(nd) + sumData(nd.inodes, k)

size(nd) == prefixSize(nd, Len(nd.inodes))

sizeLessThan(nd, v) == \A k \in 1..Len(nd.inodes) : prefixSize(nd, k) < v

RECURSIVE splitIndexFrom(_, _, _, _, _)
splitIndexFrom(nd, threshold, i, index, sz) ==
    IF i < Len(nd.inodes) - minKeysPerPage
    THEN LET elsize == pageElementSize(nd) + dataLen(nd.inodes[i + 1])
         IN IF i >= minKeysPerPage /\ sz + elsize > threshold
            THEN [index |-> i, sz |-> sz]
            ELSE splitIndexFrom(nd, threshold, i + 1, i, sz + elsize)
    ELSE [index |-> index, sz |-> sz]

(* splitIndex as it would be if it kept one inode on the left where it   *)
(* has to keep minKeysPerPage *)
RECURSIVE splitIndexOffByOneFrom(_, _, _, _, _)
splitIndexOffByOneFrom(nd, threshold, i, index, sz) ==
    IF i < Len(nd.inodes) - minKeysPerPage
    THEN LET elsize == pageElementSize(nd) + dataLen(nd.inodes[i + 1])
         IN IF i >= minKeysPerPage - 1 /\ sz + elsize > threshold
            THEN [index |-> i, sz |-> sz]
            ELSE splitIndexOffByOneFrom(nd, threshold, i + 1, i, sz + elsize)
    ELSE [index |-> index, sz |-> sz]

splitIndexOffByOne(nd, threshold) ==
    splitIndexOffByOneFrom(nd, threshold, 0, 0, pageHeaderSize)

(* splitIndex as it would be if it compared the size already taken with   *)
(* the threshold *)
RECURSIVE splitIndexLateFrom(_, _, _, _, _)
splitIndexLateFrom(nd, threshold, i, index, sz) ==
    IF i < Len(nd.inodes) - minKeysPerPage
    THEN LET elsize == pageElementSize(nd) + dataLen(nd.inodes[i + 1])
         IN IF i >= minKeysPerPage /\ sz > threshold
            THEN [index |-> i, sz |-> sz]
            ELSE splitIndexLateFrom(nd, threshold, i + 1, i, sz + elsize)
    ELSE [index |-> index, sz |-> sz]

splitIndexLate(nd, threshold) == splitIndexLateFrom(nd, threshold, 0, 0, pageHeaderSize)

splitIndex(nd, threshold) == splitIndexFrom(nd, threshold, 0, 0, pageHeaderSize)

---------------------------------------------------------------------------
(* The write transaction a tree of nodes lives in.  A node is known by its *)
(* place in the arena of the bucket's nodes; parent = 0 is the nil parent  *)
(* and key = <<>> the nil key.  st is the state the calls below thread:    *)
(*   arena   the nodes, bucket  FillPercent (in percent) and the node map, *)
(*   db      pageSize, datasz, filesz, the freelist and the mapped pages,  *)
(*           gen the number of mappings made (datasz = 0: none is mapped), *)
(*   tx      meta.pgid (the high-water mark), the dirty pages, the stats,  *)
(*   status  "ok", "error" (an error is returned) or "panic",              *)
(*   mapOk   whether the operating system lets db.mmap succeed,            *)
(*   ret     the page id the last allocation returned,                     *)
(*   calls   the number of spill calls made, log the calls spill makes.    *)

newNode(isLeaf, parent) ==
    [isLeaf |-> isLeaf, unbalanced |-> FALSE, spilled |-> FALSE, key |-> <<>>,
     pgid |-> 0, parent |-> parent, children |-> <<>>, inodes |-> <<>>]

RECURSIVE pow2(_)
pow2(i) == IF i = 0 THEN 1 ELSE 2 * pow2(i - 1)

(* A size in bytes that may pass 2^31 is kept as hi * 2^30 + lo, with lo    *)
(* below 2^30: hi counts the steps of maxMmapStep = 1 << 30.               *)
wide(x) == [hi |-> x \div pow2(maxMmapShift), lo |-> x % pow2(maxMmapShift)]

narrow(w) == w.hi * pow2(maxMmapShift) + w.lo

leq(a, b) == a.hi < b.hi \/ (a.hi = b.hi /\ a.lo <= b.lo)

(* maxMapSize = 0xFFFFFFFFFFFF: 2^48 - 1 *)
maxMapSize == [hi |-> pow2(maxMapShift - maxMmapShift) - 1, lo |-> pow2(maxMmapShift) - 1]

(* sz % pageSize and sz + d for a d of at most a page *)
remainder(sz, pageSize) ==
    (((sz.hi % pageSize) * (pow2(maxMmapShift) % pageSize)) + sz.lo) % pageSize

plus(sz, d) ==
    [hi |-> sz.hi + (sz.lo + d) \div pow2(maxMmapShift),
     lo |-> (sz.lo + d) % pow2(maxMmapShift)]

(* if remainder := sz % int64(maxMmapStep); remainder > 0 *)
stepRounded(sz) == IF sz.lo > 0 THEN [hi |-> sz.hi + 1, lo |-> 0] ELSE sz

(* if (sz % pageSize) != 0 { sz = ((sz / pageSize) + 1) * pageSize } *)
pageRounded(sz, pageSize) ==
    IF remainder(sz, pageSize) # 0
    THEN plus(sz, pageSize - remainder(sz, pageSize))
    ELSE sz

(* if sz > maxMapSize { sz = maxMapSize } *)
capped(sz) == IF leq(sz, maxMapSize) THEN sz ELSE maxMapSize

(* for i := uint(15); i <= 30; i++ { if size <= 1<<i { return 1 << i, nil } } *)
RECURSIVE doubled(_, _)
doubled(sz, i) ==
    IF i > maxMmapShift THEN [err |-> "none", size |-> sz]
    ELSE IF leq(sz, wide(pow2(i))) THEN [err |-> "ok", size |-> wide(pow2(i))]
    ELSE doubled(sz, i + 1)

(* a mmapSize that grows by steps of 1GB from the start *)
mmapSizeStepped(sz, pageSize) ==
    IF ~leq(sz, maxMapSize) THEN [err |-> "mmap too large", size |-> wide(0)]
    ELSE [err |-> "ok", size |-> capped(pageRounded(stepRounded(sz), pageSize))]

(* Db.mmapSize: the error and the size returned *)
mmapSizeWide(sz, pageSize) ==
    IF doubled(sz, minMmapShift).err = "ok" THEN doubled(sz, minMmapShift)
    ELSE IF ~leq(sz, maxMapSize) THEN [err |-> "mmap too large", size |-> wide(0)]
    ELSE [err |-> "ok", size |-> capped(pageRounded(stepRounded(sz), pageSize))]

(* Db.mmapSize on the sizes of the transactions of the model, which are    *)
(* all below 1GB *)
mmapSize(sz) == narrow(mmapSizeWide(wide(sz), defaultPageSize).size)

(* Db.mmap(minsz): fails when the file cannot be stat'ed, is shorter than  *)
(* two pages or cannot be mapped; else the mapping is mmapSize of the      *)
(* larger of the file size and minsz *)
mmap(st, minsz) ==
    IF ~st.mapOk \/ st.db.filesz < st.db.pageSize * 2
    THEN [st EXCEPT !.status = "error"]
    ELSE [st EXCEPT !.db.datasz =
              mmapSize(IF st.db.filesz < minsz THEN minsz ELSE st.db.filesz),
                    !.db.gen = @ + 1]

(* freelist.allocate(count): the start of a run of count free pages, or 0 *)
freelistAllocate(ids, count) ==
    LET starts == {id \in ids : \A j \in 0..(count - 1) : id + j \in ids}
    IN IF starts = {} THEN 0
       ELSE CHOOSE id \in starts : \A other \in starts : id <= other

(* freelist.free(txid, p): the pages of p are pending for txid *)
RECURSIVE span(_, _)
span(id, count) == IF count = 0 THEN <<>> ELSE <<id>> \o span(id + 1, count - 1)

freelistFree(st, p) ==
    [st EXCEPT !.db.freelist.pending = @ \o span(p.id, p.overflow + 1)]

(* tx.page(id): the dirty page of this transaction, else the mapped page *)
txPage(st, id) ==
    IF id \in DOMAIN st.tx.pages THEN st.tx.pages[id] ELSE st.db.pages[id]

(* Db.allocate(count) *)
allocateFree(st, count, fid) ==
    [st EXCEPT !.db.freelist.ids = @ \ {fid + j : j \in 0..(count - 1)}, !.ret = fid]

(* an allocation that moves the high-water mark by one page whatever the count *)
allocateAtEndByOne(mapped, count, id) ==
    IF mapped.status # "ok" THEN mapped
    ELSE [mapped EXCEPT !.tx.meta.pgid = @ + 1, !.ret = id]

(* an allocation at the end that leaves the high-water mark where it was *)
allocateAtEndUnmoved(mapped, count, id) ==
    IF mapped.status # "ok" THEN mapped
    ELSE [mapped EXCEPT !.ret = id]

allocateAtEnd(mapped, count, id) ==
    IF mapped.status # "ok" THEN mapped
    ELSE [mapped EXCEPT !.tx.meta.pgid = @ + count, !.ret = id]

allocateNew(st, count, id, minsz) ==
    allocateAtEnd(IF minsz >= st.db.datasz THEN mmap(st, minsz) ELSE st, count, id)

allocateWith(st, count, fid) ==
    IF fid # 0 THEN allocateFree(st, count, fid)
    ELSE allocateNew(st, count, st.tx.meta.pgid,
                     (st.tx.meta.pgid + count + 1) * st.db.pageSize)

allocate(st, count) == allocateWith(st, count, freelistAllocate(st.db.freelist.ids, count))

(* the page Db.allocate returns: p.overflow = uint32(count - 1), p.id *)
allocatedPage(a, count) == [ZeroPage EXCEPT !.id = a.ret, !.overflow = Uint32(count - 1)]

(* tx.allocate(count): Db.allocate, and the page is one of tx.pages *)
txAllocated(a, count) ==
    IF a.status # "ok" THEN a
    ELSE [a EXCEPT !.tx.pages = [id \in DOMAIN @ \cup {a.ret} |->
             IF id = a.ret THEN allocatedPage(a, count) ELSE @[id]]]

txAllocate(st, count) == txAllocated(allocate(st, count), count)

(* bucket.node(pgid, parent): the cached node of the page, else a node     *)
(* read from it, keyed by its first key and listed under its parent        *)
loaded(rd, pgid) ==
    [rd EXCEPT !.pgid = pgid,
               !.key = IF Len(rd.inodes) > 0 THEN rd.inodes[1].key ELSE <<>>]

listed(ar, parent, id) ==
    IF parent = 0 THEN ar ELSE [ar EXCEPT ![parent].children = Append(@, id)]

bucketNodeNew(st, pgid, parent, id, nd) ==
    [st EXCEPT !.arena = listed(Append(st.arena, nd), parent, id),
               !.bucket.nodes = [q \in DOMAIN @ \cup {pgid} |->
                                    IF q = pgid THEN id ELSE @[q]],
               !.ret = id]

bucketNode(st, pgid, parent) ==
    IF pgid \in DOMAIN st.bucket.nodes
    THEN [st EXCEPT !.ret = st.bucket.nodes[pgid]]
    ELSE bucketNodeNew(st, pgid, parent, Len(st.arena) + 1,
                       loaded(read(newNode(FALSE, parent), txPage(st, pgid)), pgid))

(* the entry of a branch a key is looked up under: the last one whose key  *)
(* is not above it *)
branchIndex(nd, key) ==
    LET index == searchKey(nd.inodes, key)
        exact == index < Len(nd.inodes) /\ bytesEqual(nd.inodes[index + 1].key, key)
    IN IF ~exact /\ index > 0 THEN index - 1 ELSE index

(* the leaf a key belongs to, materializing the nodes on the way down *)
RECURSIVE seek(_, _, _)
seekFrom(m, key) == seek(m, m.ret, key)

seekChild(st, id, nd, key) ==
    seekFrom(bucketNode(st, nd.inodes[branchIndex(nd, key) + 1].pgid, id), key)

seek(st, id, key) ==
    IF st.arena[id].isLeaf \/ st.arena[id].inodes = <<>> THEN [st EXCEPT !.ret = id]
    ELSE seekChild(st, id, st.arena[id], key)

---------------------------------------------------------------------------
(* sort.Sort(n.children) by nodes.Less: an insertion sort, as sort.Sort is *)
(* on so few elements.  Less reads inodes[0] of both nodes.                *)

Less(ns, a, b) == bytesCompare(ns[a].inodes[1].key, ns[b].inodes[1].key) = -1

RECURSIVE insertSorted(_, _, _)
insertSorted(ns, s, c) ==
    IF s = <<>> THEN <<c>>
    ELSE IF Less(ns, c, s[Len(s)])
         THEN Append(insertSorted(ns, SubSeq(s, 1, Len(s) - 1), c), s[Len(s)])
         ELSE Append(s, c)

RECURSIVE sortNodes(_, _, _)
sortNodes(ns, s, k) ==
    IF k = 0 THEN <<>> ELSE insertSorted(ns, sortNodes(ns, s, k - 1), s[k])

(* sorting two or more nodes compares every one of them *)
sortPanics(ns, s) == Len(s) >= 2 /\ \E i \in 1..Len(s) : ns[s[i]].inodes = <<>>

---------------------------------------------------------------------------
(* node.splitTwo, node.split *)

clampFillPercent(f) ==
    IF f < minFillPercent THEN minFillPercent
    ELSE IF f > maxFillPercent THEN maxFillPercent
    ELSE f

(* the node gets a parent when it has none *)
withParent(st, id) ==
    IF st.arena[id].parent = 0
    THEN [st EXCEPT !.arena = Append(@, [newNode(FALSE, 0) EXCEPT !.children = <<id>>]),
                    !.arena[id].parent = Len(st.arena) + 1]
    ELSE st

(* the inodes from index on move to a new node, listed under the parent *)
splitAt(st, id, nd, index, next) ==
    [st |-> [st EXCEPT
               !.arena = Append(@, [newNode(nd.isLeaf, nd.parent) EXCEPT
                                      !.inodes = SubSeq(nd.inodes, index + 1, Len(nd.inodes))]),
               !.arena[id].inodes = SubSeq(nd.inodes, 1, index),
               !.arena[nd.parent].children = Append(@, next),
               !.tx.stats.Split = @ + 1],
     a |-> id, b |-> next]

splitParented(st, id, index) == splitAt(st, id, st.arena[id], index, Len(st.arena) + 1)

(* splitTwo as it would be if it looked at the number of inodes only *)
splitTwoByCountOnly(st, id, pageSize) ==
    IF Len(st.arena[id].inodes) <= minKeysPerPage * 2
    THEN [st |-> st, a |-> id, b |-> 0]
    ELSE splitParented(withParent(st, id), id,
            splitIndex(st.arena[id],
                       (pageSize * clampFillPercent(st.bucket.FillPercent)) \div 100).index)

splitTwo(st, id, pageSize) ==
    IF Len(st.arena[id].inodes) <= minKeysPerPage * 2 \/ sizeLessThan(st.arena[id], pageSize)
    THEN [st |-> st, a |-> id, b |-> 0]
    ELSE splitParented(withParent(st, id), id,
            splitIndex(st.arena[id],
                       (pageSize * clampFillPercent(st.bucket.FillPercent)) \div 100).index)

RECURSIVE splitFrom(_, _, _, _)
splitNext(two, pageSize, nodes) ==
    IF two.b = 0 THEN [st |-> two.st, nodes |-> Append(nodes, two.a)]
    ELSE splitFrom(two.st, two.b, pageSize, Append(nodes, two.a))

splitFrom(st, id, pageSize, nodes) == splitNext(splitTwo(st, id, pageSize), pageSize, nodes)

split(st, id, pageSize) == splitFrom(st, id, pageSize, <<>>)

(* what one call of split did, for the log *)
splitRecord(before, id, sp) ==
    [node |-> id,
     before |-> before.arena[id].inodes,
     parentBefore |-> before.arena[id].parent,
     splitsBefore |-> before.tx.stats.Split,
     nodes |-> sp.nodes,
     inodes |-> [k \in 1..Len(sp.nodes) |-> sp.st.arena[sp.nodes[k]].inodes],
     parents |-> [k \in 1..Len(sp.nodes) |-> sp.st.arena[sp.nodes[k]].parent],
     listed |-> [k \in 1..Len(sp.nodes) |->
                    LET p == sp.st.arena[sp.nodes[k]].parent
                    IN p # 0 /\ \E c \in 1..Len(sp.st.arena[p].children) :
                                    sp.st.arena[p].children[c] = sp.nodes[k]],
     splitsAfter |-> sp.st.tx.stats.Split,
     arenaBefore |-> before.arena,
     arenaAfter |-> sp.st.arena]

---------------------------------------------------------------------------
(* node.spill *)

(* the body of spill's loop over the nodes split returned, for one node, *)
(* statement by statement                                                 *)
counted(s) == [s EXCEPT !.tx.stats.Spill = @ + 1]

(* node.parent.put(key, node.inodes[0].key, nil, node.pgid, 0) *)
spillPut(marked, id, nd, key) ==
    [marked EXCEPT
       !.arena[nd.parent] = put(@, key, nd.inodes[1].key, <<>>, marked.ret, 0),
       !.arena[id].key = nd.inodes[1].key,
       !.log.puts = Append(@, [node |-> id, parent |-> nd.parent,
                               nodeKey |-> nd.key, oldKey |-> key,
                               key |-> nd.inodes[1].key, pgid |-> marked.ret])]

spillParent(marked, id, nd) ==
    IF nd.parent = 0 THEN counted(marked)
    ELSE IF nd.inodes = <<>> THEN [marked EXCEPT !.status = "panic"]
    ELSE counted(spillPut(marked, id, nd, IF nd.key = <<>> THEN nd.inodes[1].key ELSE nd.key))

(* node.write(p) and node.spilled = true *)
spillWritten(logged, w, id, nd) ==
    IF ~w.ok
    THEN [logged EXCEPT !.arena[id].pgid = logged.ret, !.tx.pages[logged.ret] = w.page,
                        !.status = "panic"]
    ELSE spillParent([logged EXCEPT !.arena[id].pgid = logged.ret,
                                    !.tx.pages[logged.ret] = w.page,
                                    !.arena[id].spilled = TRUE],
                     id, nd)

spillWrite(logged, id, nd) ==
    IF logged.ret >= logged.tx.meta.pgid THEN [logged EXCEPT !.status = "panic"]
    ELSE spillWritten(logged, write(txPage(logged, logged.ret), nd), id, nd)

(* a spill that marks the node spilled though the allocator failed *)
spillAllocatedMarked(al, id, nd, count) ==
    IF al.status # "ok"
    THEN [al EXCEPT !.arena[id].spilled = TRUE,
                    !.log.checks = Append(@, [op |-> "spill", node |-> id, err |-> al.status])]
    ELSE spillWrite([al EXCEPT !.log.allocs =
                        Append(@, [node |-> id, size |-> size(nd), count |-> count,
                                   id |-> al.ret, mark |-> al.tx.meta.pgid])],
                    id, nd)

(* tx.allocate((node.size() / db.pageSize) + 1) *)
spillAllocated(al, id, nd, count) ==
    IF al.status # "ok"
    THEN [al EXCEPT !.log.checks = Append(@, [op |-> "spill", node |-> id, err |-> al.status])]
    ELSE spillWrite([al EXCEPT !.log.allocs =
                        Append(@, [node |-> id, size |-> size(nd), count |-> count,
                                   id |-> al.ret, mark |-> al.tx.meta.pgid])],
                    id, nd)

spillFreed(freed, id, nd, count) == spillAllocated(txAllocate(freed, count), id, nd, count)

spillNode(st, id) ==
    spillFreed(IF st.arena[id].pgid > 0
               THEN [freelistFree(st, txPage(st, st.arena[id].pgid)) EXCEPT !.arena[id].pgid = 0]
               ELSE st,
               id, st.arena[id], (size(st.arena[id]) \div st.db.pageSize) + 1)

RECURSIVE spillNodes(_, _, _)
spillNodes(st, nodes, k) ==
    IF k > Len(nodes) \/ st.status # "ok" THEN st
    ELSE spillNodes(spillNode(st, nodes[k]), nodes, k + 1)

RECURSIVE spill(_, _)
RECURSIVE spillChildren(_, _, _)

(* the loop over the children as it would be if it ended after one child *)
spillFirstChildOnly(st, id, i) ==
    IF st.status # "ok" \/ ~(i < Len(st.arena[id].children)) THEN st
    ELSE spill(st, st.arena[id].children[i + 1])

spillChildren(st, id, i) ==
    IF st.status # "ok" \/ ~(i < Len(st.arena[id].children)) THEN st
    ELSE spillChildren(spill(st, st.arena[id].children[i + 1]), id, i + 1)

(* the end of spill: the root got a parent by splitting, spill that too *)
spillRoot(done, id) ==
    IF done.status # "ok" THEN done
    ELSE IF done.arena[id].parent # 0 /\ done.arena[done.arena[id].parent].pgid = 0
         THEN spill([done EXCEPT !.arena[id].children = <<>>], done.arena[id].parent)
         ELSE done

spillSplit(cleared, id, sp) ==
    spillRoot(spillNodes([sp.st EXCEPT !.log.splits = Append(@, splitRecord(cleared, id, sp))],
                         sp.nodes, 1),
              id)

spillCleared(cleared, id) == spillSplit(cleared, id, split(cleared, id, cleared.db.pageSize))

spillSorted(spilt, id) ==
    IF spilt.status # "ok" THEN spilt
    ELSE spillCleared([spilt EXCEPT !.arena[id].children = <<>>], id)

spill(st, id) ==
    IF st.status # "ok" THEN st
    ELSE IF st.calls >= MaxSpillCalls THEN [st EXCEPT !.status = "cut"]
    ELSE IF st.arena[id].spilled THEN [st EXCEPT !.calls = @ + 1]
    ELSE IF sortPanics(st.arena, st.arena[id].children) THEN [st EXCEPT !.status = "panic"]
    ELSE spillSorted(
            spillChildren(
               [st EXCEPT !.arena[id].children =
                             sortNodes(st.arena, @, Len(@)),
                          !.calls = @ + 1],
               id, 0),
            id)

---------------------------------------------------------------------------
(* node.rebalance and what it calls *)

(* minKeys as it would be if a leaf needed as many keys as a branch *)
minKeysOfBranch(nd) == 2

minKeys(nd) == IF nd.isLeaf THEN 1 ELSE 2

childIndex(nd, child) == searchKey(nd.inodes, child.key)

numChildren(nd) == Len(nd.inodes)

(* the first place of target in a list of children, 0 when it has none *)
RECURSIVE placeOf(_, _, _)
placeOf(children, target, i) ==
    IF i > Len(children) THEN 0
    ELSE IF children[i] = target THEN i
    ELSE placeOf(children, target, i + 1)

removeChildAt(nd, place) ==
    IF place = 0 THEN nd ELSE [nd EXCEPT !.children = removeAt(@, place - 1)]

removeChild(nd, target) == removeChildAt(nd, placeOf(nd.children, target, 1))

(* a free that leaves the node its page id *)
freeKeepingPgid(st, id) ==
    IF st.arena[id].pgid # 0
    THEN freelistFree(st, txPage(st, st.arena[id].pgid))
    ELSE st

(* node.free *)
free(st, id) ==
    IF st.arena[id].pgid # 0
    THEN [freelistFree(st, txPage(st, st.arena[id].pgid)) EXCEPT !.arena[id].pgid = 0]
    ELSE st

(* delete(n.bucket.nodes, pgid) *)
deleteNode(st, pgid) ==
    [st EXCEPT !.bucket.nodes = [q \in (DOMAIN @) \ {pgid} |-> @[q]]]

(* a removal that frees the node before it deletes it from the node map *)
removeNodeFreedFirst(st, parent, x) ==
    deleteNode(free([st EXCEPT !.arena[parent] = removeChild(del(@, st.arena[x].key), x)],
                    x),
               0)

(* n.parent.del(x.key); n.parent.removeChild(x); delete(nodes, x.pgid); x.free() *)
removeNode(st, parent, x) ==
    free(deleteNode([st EXCEPT !.arena[parent] = removeChild(del(@, st.arena[x].key), x)],
                    st.arena[x].pgid),
         x)

(* child.parent.removeChild(child); child.parent = to; append to its children; *)
(* a child without a parent is a nil pointer there *)
adopt(st, child, to) ==
    IF st.arena[child].parent = 0 THEN [st EXCEPT !.status = "panic"]
    ELSE [st EXCEPT !.arena[st.arena[child].parent] = removeChild(@, child),
                    !.arena[child].parent = to,
                    !.arena[to].children = Append(@, child)]

(* the loop over the inodes that move: their materialized nodes move along *)
RECURSIVE reparent(_, _, _, _)
reparent(st, inodes, k, to) ==
    IF st.status # "ok" \/ k > Len(inodes) THEN st
    ELSE IF inodes[k].pgid \in DOMAIN st.bucket.nodes
         THEN reparent(adopt(st, st.bucket.nodes[inodes[k].pgid], to), inodes, k + 1, to)
         ELSE reparent(st, inodes, k + 1, to)

(* the loop of the root that takes the place of its child: child.parent = n *)
RECURSIVE reparentRoot(_, _, _, _)
(* a collapse that leaves the nodes moved up with the parent they had *)
reparentRootNone(st, inodes, k, to) == st

reparentRoot(st, inodes, k, to) ==
    IF k > Len(inodes) THEN st
    ELSE IF inodes[k].pgid \in DOMAIN st.bucket.nodes
         THEN reparentRoot([st EXCEPT !.arena[st.bucket.nodes[inodes[k].pgid]].parent = to],
                           inodes, k + 1, to)
         ELSE reparentRoot(st, inodes, k + 1, to)

(* the root is a branch of one entry: its child moves up *)
collapseWith(m, id, child) ==
    free(deleteNode([reparentRoot([m EXCEPT !.arena[id].isLeaf = m.arena[child].isLeaf,
                                            !.arena[id].inodes = m.arena[child].inodes,
                                            !.arena[id].children = m.arena[child].children],
                                  m.arena[child].inodes, 1, id)
                       EXCEPT !.arena[child].parent = 0],
                    m.arena[child].pgid),
         child)

collapse(m, id) == [collapseWith(m, id, m.ret) EXCEPT !.ret = m.ret]

rebalanceRoot(st, id) ==
    IF ~st.arena[id].isLeaf /\ Len(st.arena[id].inodes) = 1
    THEN collapse(bucketNode(st, st.arena[id].inodes[1].pgid, id), id)
    ELSE [st EXCEPT !.ret = 0]

(* nextSibling / prevSibling: childAt(index + 1) or childAt(index - 1) of the *)
(* parent; no sibling is nil, which rebalance then reads through, and      *)
(* childAt panics on a leaf                                                *)
(* a nextSibling that finds none for the last but one child either *)
nextSiblingButLast(st, id, parent, index) ==
    IF index >= numChildren(st.arena[parent]) - 2 THEN [st EXCEPT !.status = "panic"]
    ELSE bucketNode(st, st.arena[parent].inodes[index + 2].pgid, parent)

nextSibling(st, id, parent, index) ==
    IF index >= numChildren(st.arena[parent]) - 1 THEN [st EXCEPT !.status = "panic"]
    ELSE IF st.arena[parent].isLeaf THEN [st EXCEPT !.status = "panic"]
    ELSE bucketNode(st, st.arena[parent].inodes[index + 2].pgid, parent)

prevSibling(st, id, parent, index) ==
    IF index = 0 THEN [st EXCEPT !.status = "panic"]
    ELSE IF st.arena[parent].isLeaf THEN [st EXCEPT !.status = "panic"]
    ELSE bucketNode(st, st.arena[parent].inodes[index].pgid, parent)

(* a merge that removes the right sibling and leaves its inodes behind *)
mergeNextEmpty(m, id, parent, target) ==
    removeNode(reparent(m, m.arena[target].inodes, 1, id), parent, target)

(* the node takes the inodes of its right sibling *)
mergeNext(m, id, parent, target) ==
    removeNode([reparent(m, m.arena[target].inodes, 1, id)
                   EXCEPT !.arena[id].inodes = @ \o m.arena[target].inodes],
               parent, target)

(* a merge that puts the entries of the node before those of its left sibling *)
mergePrevPrepended(m, id, parent, target) ==
    removeNode([reparent(m, m.arena[id].inodes, 1, target)
                   EXCEPT !.arena[target].inodes = m.arena[id].inodes \o @],
               parent, id)

(* the left sibling takes the inodes of the node *)
mergePrev(m, id, parent, target) ==
    removeNode([reparent(m, m.arena[id].inodes, 1, target)
                   EXCEPT !.arena[target].inodes = @ \o m.arena[id].inodes],
               parent, id)

mergeInto(m, id, parent, useNextSibling) ==
    IF m.status # "ok" THEN m
    ELSE IF useNextSibling THEN [mergeNext(m, id, parent, m.ret) EXCEPT !.ret = m.ret]
    ELSE [mergePrev(m, id, parent, m.ret) EXCEPT !.ret = m.ret]

rebalanceMerge(st, id, parent, index) ==
    mergeInto(IF index = 0 THEN nextSibling(st, id, parent, index)
              ELSE prevSibling(st, id, parent, index),
              id, parent, index = 0)

(* what one call of rebalance did before it went on to the parent, for the log *)
snapshot(st) == [arena |-> st.arena, bucket |-> st.bucket, db |-> st.db, tx |-> st.tx]

rebalanceRecord(before, after, id, target, next) ==
    [node |-> id, before |-> snapshot(before), after |-> snapshot(after),
     target |-> target, next |-> next]

RECURSIVE rebalance(_, _)

(* the end of a call of rebalance: return, or n.parent.rebalance() *)
rebalanceDone(before, after, id, target, next) ==
    IF after.status # "ok" THEN after
    ELSE IF next = 0
         THEN [after EXCEPT !.log.rebalances =
                              Append(@, rebalanceRecord(before, after, id, target, next))]
         ELSE rebalance([after EXCEPT !.log.rebalances =
                              Append(@, rebalanceRecord(before, after, id, target, next))],
                        next)

rebalanceReturn(before, after, id) == rebalanceDone(before, after, id, after.ret, 0)

(* a call that returns where rebalance goes on to the parent *)
rebalanceParentNot(before, after, id, parent) ==
    rebalanceDone(before, after, id, after.ret, 0)

rebalanceParent(before, after, id, parent) ==
    rebalanceDone(before, after, id, after.ret, parent)

rebalanceCounted(before, st, id, nd) ==
    IF size(nd) > st.db.pageSize \div 4 /\ Len(nd.inodes) > minKeys(nd)
    THEN rebalanceReturn(before, [st EXCEPT !.ret = 0], id)
    ELSE IF nd.parent = 0
    THEN rebalanceReturn(before, rebalanceRoot(st, id), id)
    ELSE IF numChildren(nd) = 0
    THEN rebalanceParent(before, [removeNode(st, nd.parent, id) EXCEPT !.ret = 0],
                         id, nd.parent)
    ELSE rebalanceParent(before,
                         rebalanceMerge(st, id, nd.parent,
                                        childIndex(st.arena[nd.parent], nd)),
                         id, nd.parent)

rebalance(st, id) ==
    IF st.status # "ok" THEN st
    ELSE IF ~st.arena[id].unbalanced THEN rebalanceReturn(st, [st EXCEPT !.ret = 0], id)
    ELSE rebalanceCounted(st,
                          [st EXCEPT !.arena[id].unbalanced = FALSE,
                                     !.tx.stats.Rebalance = @ + 1],
                          id, st.arena[id])

---------------------------------------------------------------------------
(* The references of a node.  A key or a value is a byte slice: nil, a     *)
(* view into mapping number `of[1]` of the data file, or a buffer on the   *)
(* heap known by the moment it was made; bytes is what it reads as while   *)
(* its memory is there.                                                    *)

nil == [mem |-> "nil", of |-> <<>>, bytes |-> <<>>]
viewOf(bytes, gen) == [mem |-> "mmap", of |-> <<gen>>, bytes |-> bytes]
owned(bytes, made) == [mem |-> "heap", of |-> made, bytes |-> bytes]

(* elem.key(), elem.value(): slices of the page memory; a branch inode has *)
(* no value *)
borrowInode(inode, isLeaf, gen) ==
    [inode EXCEPT !.key = viewOf(@, gen),
                  !.value = IF isLeaf THEN viewOf(@, gen) ELSE nil]

(* node.read with the memory its slices point into; node.key shares the   *)
(* memory of the first key *)
borrow(nd, gen) ==
    [nd EXCEPT !.key = IF @ = <<>> THEN nil ELSE viewOf(@, gen),
               !.inodes = tuple([i \in 1..Len(nd.inodes) |->
                                    borrowInode(nd.inodes[i], nd.isLeaf, gen)],
                                Len(nd.inodes))]

(* Bucket.node(pgid, parent) of a page that is not cached yet *)
borrowed(m, gen) == [m EXCEPT !.arena[m.ret] = borrow(@, gen)]

bucketNodeOver(st, pgid, parent) == borrowed(bucketNode(st, pgid, parent), st.db.gen)

(* make([]byte, len(b)); copy(...) *)
copyOf(slice, made) == owned(slice.bytes, made)

dereferenceInode(inode, visit, id, i) ==
    [inode EXCEPT !.key = copyOf(@, <<visit, id, 2 * i - 1>>),
                  !.value = copyOf(@, <<visit, id, 2 * i>>)]

(* the key of the node, if it is not nil, and the key and value of every inode *)
dereferenceOwn(nd, visit, id) ==
    [nd EXCEPT !.key = IF @ = nil THEN nil ELSE copyOf(@, <<visit, id, 0>>),
               !.inodes = tuple([i \in 1..Len(nd.inodes) |->
                                    dereferenceInode(nd.inodes[i], visit, id, i)],
                                Len(nd.inodes))]

RECURSIVE dereference(_, _)

(* a dereference that stops at the node *)
dereferenceChildrenNone(st, children, k) == st

RECURSIVE dereferenceChildren(_, _, _)
dereferenceChildren(st, children, k) ==
    IF k > Len(children) THEN st
    ELSE dereferenceChildren(dereference(st, children[k]), children, k + 1)

dereferenceCounted(st) == [st EXCEPT !.tx.stats.NodeDeref = @ + 1]

dereference(st, id) ==
    dereferenceCounted(
        dereferenceChildren(
            [st EXCEPT !.arena[id] = dereferenceOwn(@, st.tx.stats.NodeDeref, id)],
            st.arena[id].children, 1))

(* one call of dereference from outside, for the log: the state before it  *)
(* and the state it left, which is the state the old mapping is unmapped in *)
derefRecord(before, after, id, remap) ==
    [node |-> id, before |-> snapshot(before), after |-> snapshot(after), remap |-> remap]

dereferenceLogged(st, after, id, remap) ==
    [after EXCEPT !.log.derefs = Append(@, derefRecord(st, after, id, remap))]

(* munmap(db) *)
munmap(st) == [st EXCEPT !.db.datasz = 0]

(* Db.mmap(minsz) in a write transaction: db.rwtx.root.dereference(), then *)
(* munmap, then the new mapping *)
mmapOver(st, minsz) ==
    IF st.db.filesz < st.db.pageSize * 2 THEN [st EXCEPT !.status = "error"]
    ELSE mmap(munmap(dereferenceLogged(st, dereference(st, st.bucket.rootNode),
                                       st.bucket.rootNode, TRUE)),
              minsz)

---------------------------------------------------------------------------
(* The data file and its two meta pages.  A file is its size in bytes, its *)
(* pages by position and the meta structs of the first two of them.        *)

(* A uint64 is kept as its four 16-bit limbs, the lowest first, so that the *)
(* arithmetic of hash/fnv is done in its 64 bits.                          *)
Zero64 == <<0, 0, 0, 0>>

(* the exclusive or of two bytes *)
RECURSIVE xorBits(_, _, _)
xorBits(a, b, bits) ==
    IF bits = 0 THEN 0
    ELSE ((a + b) % 2) + 2 * xorBits(a \div 2, b \div 2, bits - 1)

(* hash *= prime64 in 64 bits; prime64 = 1 << 40 + 0x1b3 *)
mulCarry(h, limb, carry, high) == h[limb] * 435 + carry + high

mulLimbs(h, c1, c2, c3, c4) == <<c1 % 65536, c2 % 65536, c3 % 65536, c4 % 65536>>

mulFrom3(h, c1, c2, c3) ==
    mulLimbs(h, c1, c2, c3,
             mulCarry(h, 4, c3 \div 65536, (h[2] * 256 + h[1] \div 256) % 65536))

mulFrom2(h, c1, c2) ==
    mulFrom3(h, c1, c2, mulCarry(h, 3, c2 \div 65536, (h[1] * 256) % 65536))

mulFrom1(h, c1) == mulFrom2(h, c1, mulCarry(h, 2, c1 \div 65536, 0))

mulPrime64(h) == mulFrom1(h, mulCarry(h, 1, 0, 0))

(* fnv.New64a: hash ^= byte; hash *= prime64, from offset64 = 0xcbf29ce484222325 *)
fnvWrite(h, byte) ==
    mulPrime64([h EXCEPT ![1] = (@ \div 256) * 256 + xorBits(@ % 256, byte, 8)])

(* h.Write(bytes[k:]) on a hash h of four limbs; h.Sum64() *)
RECURSIVE fnvFrom(_, _, _)
fnvFrom(h, bytes, k) ==
    IF Len(h) # 4 \/ k > Len(bytes) THEN h
    ELSE fnvFrom(fnvWrite(h, bytes[k]), bytes, k + 1)

fnv1a64(bytes) == fnvFrom(<<8997, 33826, 40164, 52210>>, bytes, 1)

(* the bytes of an unsigned field in memory, the lowest first *)
RECURSIVE littleEndian(_, _)
littleEndian(x, width) ==
    IF width = 0 THEN <<>> ELSE <<x % 256>> \o littleEndian(x \div 256, width - 1)

(* the bytes of a meta before its checksum: unsafe.Offsetof(meta{}.checksum) *)
dataBeforeChecksum(m) ==
    littleEndian(m.version, 4) \o littleEndian(m.pageSize, 4)
    \o littleEndian(m.pgid, 8) \o littleEndian(m.txid, 8)

(* the bytes of a uint64 kept as limbs *)
limbBytes(c) ==
    littleEndian(c[1], 2) \o littleEndian(c[2], 2) \o littleEndian(c[3], 2)
    \o littleEndian(c[4], 2)

(* the memory of a meta struct: version, pageSize, pgid, txid, checksum *)
metaImage(m) == dataBeforeChecksum(m) \o limbBytes(m.checksum)

(* a sum over the whole struct, the checksum field included *)
sum64Whole(image) == fnv1a64(image)

(* meta.sum64 on the memory the receiver points at: the hash of its first *)
(* unsafe.Offsetof(meta{}.checksum) bytes                                  *)
sum64At(image) == fnv1a64(SubSeq(image, 1, checksumOffset))

(* meta.sum64 *)
sum64(m) == sum64At(metaImage(m))

(* a validate that looks at the checksum first *)
validateChecksumFirst(m) ==
    IF m.checksum # Zero64 /\ m.checksum # sum64(m) THEN "checksum error"
    ELSE IF m.version # tinyDBVersion THEN "version mismatch"
    ELSE "ok"

(* meta.validate: nil is "ok" *)
validate(m) ==
    IF m.version # tinyDBVersion THEN "version mismatch"
    ELSE IF m.checksum # Zero64 /\ m.checksum # sum64(m) THEN "checksum error"
    ELSE "ok"

summed(m) == [m EXCEPT !.checksum = sum64(m)]

(* a Db.init that leaves the checksum of the meta struct unset *)
initMetaUnsummed(i, pageSize) ==
    [version |-> tinyDBVersion, pageSize |-> pageSize, pgid |-> i, txid |-> 0,
     checksum |-> Zero64]

(* Db.init: the meta struct of page i *)
initMeta(i, pageSize) ==
    summed([version |-> tinyDBVersion, pageSize |-> pageSize, pgid |-> i, txid |-> 0,
            checksum |-> Zero64])

(* Db.init: the page written at position pos of the buffer of four pages *)
initPage(pos) == [ZeroPage EXCEPT !.id = IF pos = 3 THEN 2 ELSE pos]

init(pageSize) ==
    [size |-> pageSize * 4,
     pages |-> [pos \in 0..3 |-> initPage(pos)],
     metas |-> <<initMeta(0, pageSize), initMeta(1, pageSize)>>]

(* a Db on a file: nothing mapped, no freelist read *)
dbOn(file, pageSize) ==
    [pageSize |-> pageSize, datasz |-> 0, gen |-> 0, filesz |-> file.size,
     freelist |-> [ids |-> {}, pending |-> <<>>], pages |-> file.pages,
     metas |-> file.metas]

(* the *Db that Open returns with an error *)
NoDb == [nil |-> TRUE]

(* Open: the error, the Db returned and the file as Open leaves it *)
openValidated(file, pageSize, err) ==
    [status |-> err, db |-> IF err = "ok" THEN dbOn(file, pageSize) ELSE NoDb,
     file |-> file]

(* an Open that reads the meta page and does not validate it *)
openExistingUnvalidated(file, pageSize) ==
    IF file.size < metaReadSize THEN openValidated(file, pageSize, "invalid")
    ELSE openValidated(file, pageSize, "ok")

(* var buf [4069]byte; ReadAt; pageInBuffer(buf[:], 0).meta().validate() *)
openExisting(file, pageSize) ==
    IF file.size < metaReadSize THEN openValidated(file, pageSize, "invalid")
    ELSE openValidated(file, pageSize, validate(file.metas[1]))

(* an Open that initialises every file it cannot read a meta page from *)
openShortInitialised(file, pageSize) ==
    IF file.size < metaReadSize THEN openValidated(init(pageSize), pageSize, "ok")
    ELSE openExisting(file, pageSize)

open(file, pageSize) ==
    IF file.size = 0 THEN openValidated(init(pageSize), pageSize, "ok")
    ELSE openExisting(file, pageSize)

(* Db.mmap: the end of it, where both meta pages are validated *)
metasValidated(m) ==
    IF m.status # "ok" THEN m
    ELSE IF validate(m.db.metas[1]) # "ok" /\ validate(m.db.metas[2]) # "ok"
    THEN [m EXCEPT !.status = validate(m.db.metas[1])]
    ELSE m

(* Db.mmap(minsz) outside a write transaction *)
mmapOpened(st, minsz) == metasValidated(mmap(st, minsz))

---------------------------------------------------------------------------
(* Databases a write transaction starts from.  Every tree is what Put and  *)
(* spill leave on disk: sorted pages, a branch entry keyed by the first    *)
(* key of its child, the root on page 3 behind the meta and freelist pages *)
(* and a high-water mark above every page in use.  A page holds a little   *)
(* more than two entries, so that a handful of keys fills several pages.   *)

leafEntry(key) == [flags |-> 0, pgid |-> 0, key |-> key, value |-> <<8>>]
branchEntry(key, child) == [flags |-> 0, pgid |-> child, key |-> key, value |-> <<>>]
leafInode(k) == leafEntry(<<k>>)
branchInode(k, child) == branchEntry(<<k>>, child)

pageOf(id, isLeaf, inodes) ==
    write([ZeroPage EXCEPT !.id = id], [isLeaf |-> isLeaf, inodes |-> inodes]).page

(* a root leaf *)
LeafRoot ==
    [pgid |-> 4, ids |-> {},
     pages |-> [id \in {3} |->
        pageOf(3, TRUE, <<leafInode(3), leafInode(4), leafInode(5), leafInode(6)>>)]]

(* a root branch over two leaves, and two free pages *)
TwoLeaves ==
    [pgid |-> 8, ids |-> {6, 7},
     pages |-> [id \in {3, 4, 5} |->
        IF id = 3 THEN pageOf(3, FALSE, <<branchInode(1, 4), branchInode(4, 5)>>)
        ELSE IF id = 4 THEN pageOf(4, TRUE, <<leafInode(1), leafInode(2)>>)
        ELSE pageOf(5, TRUE, <<leafInode(4), leafInode(5)>>)]]

(* a root branch over four leaves: one more child and the root splits *)
FourLeaves ==
    [pgid |-> 8, ids |-> {},
     pages |-> [id \in {3, 4, 5, 6, 7} |->
        IF id = 3 THEN pageOf(3, FALSE, <<branchInode(1, 4), branchInode(2, 5),
                                           branchInode(3, 6), branchInode(4, 7)>>)
        ELSE IF id = 4 THEN pageOf(4, TRUE, <<leafInode(1)>>)
        ELSE IF id = 5 THEN pageOf(5, TRUE, <<leafInode(2)>>)
        ELSE IF id = 6 THEN pageOf(6, TRUE, <<leafInode(3)>>)
        ELSE pageOf(7, TRUE, <<leafInode(4), leafInode(5)>>)]]

(* a root branch over two branches, the second of them with four leaves:  *)
(* one more leaf and that branch splits *)
ThreeLevels ==
    [pgid |-> 12, ids |-> {},
     pages |-> [id \in 3..11 |->
        IF id = 3 THEN pageOf(3, FALSE, <<branchEntry(<<0>>, 4), branchInode(1, 5)>>)
        ELSE IF id = 4 THEN pageOf(4, FALSE, <<branchEntry(<<0>>, 6), branchEntry(<<0, 1>>, 7)>>)
        ELSE IF id = 5 THEN pageOf(5, FALSE, <<branchInode(1, 8), branchInode(2, 9),
                                                branchInode(3, 10), branchInode(4, 11)>>)
        ELSE IF id = 6 THEN pageOf(6, TRUE, <<leafEntry(<<0>>)>>)
        ELSE IF id = 7 THEN pageOf(7, TRUE, <<leafEntry(<<0, 1>>)>>)
        ELSE IF id = 8 THEN pageOf(8, TRUE, <<leafInode(1)>>)
        ELSE IF id = 9 THEN pageOf(9, TRUE, <<leafInode(2)>>)
        ELSE IF id = 10 THEN pageOf(10, TRUE, <<leafInode(3)>>)
        ELSE pageOf(11, TRUE, <<leafInode(4), leafInode(5)>>)]]

Databases ==
    {[tree |-> LeafRoot, pageSize |-> 60, FillPercent |-> 50],
     [tree |-> LeafRoot, pageSize |-> 60, FillPercent |-> 5],
     [tree |-> LeafRoot, pageSize |-> 80, FillPercent |-> 150],
     [tree |-> LeafRoot, pageSize |-> 120, FillPercent |-> 50],
     [tree |-> TwoLeaves, pageSize |-> 60, FillPercent |-> 50],
     [tree |-> FourLeaves, pageSize |-> 60, FillPercent |-> 100],
     [tree |-> ThreeLevels, pageSize |-> 60, FillPercent |-> 50]}

NoLog == [allocs |-> <<>>, splits |-> <<>>, puts |-> <<>>, rebalances |-> <<>>,
          derefs |-> <<>>, allocations |-> <<>>, checks |-> <<>>]

(* the state of a write transaction on a database just opened: nothing is  *)
(* mapped yet (Open does not call mmap) and no node is materialized *)
begin(d) ==
    [arena |-> <<>>,
     bucket |-> [FillPercent |-> d.FillPercent, nodes |-> <<>>, rootNode |-> 0],
     db |-> [pageSize |-> d.pageSize, datasz |-> 0, gen |-> 0,
             filesz |-> d.tree.pgid * d.pageSize,
             freelist |-> [ids |-> d.tree.ids, pending |-> <<>>],
             pages |-> d.tree.pages],
     tx |-> [meta |-> [pgid |-> d.tree.pgid, txid |-> 1], pages |-> <<>>,
             stats |-> [Spill |-> 0, Split |-> 0, Rebalance |-> 0, NodeDeref |-> 0]],
     status |-> "ok", mapOk |-> TRUE, ret |-> 0, calls |-> 0, log |-> NoLog]

(* ... and with the root node of the bucket materialized from page 3 *)
asRoot(s) == [s EXCEPT !.bucket.rootNode = s.ret]

rooted(d) == asRoot(bucketNode(begin(d), 3, 0))

Idle == [begin([tree |-> LeafRoot, pageSize |-> 60, FillPercent |-> 50])
            EXCEPT !.status = "idle"]

---------------------------------------------------------------------------
(* The stand-alone node of node_test.go: a node is built by put and del,   *)
(* written into a zeroed page buffer and read back into a fresh node.      *)

NoOp == [op |-> "none", oldKey |-> <<>>, key |-> <<>>, value |-> <<>>,
         pgid |-> 0, flags |-> 0]

FreshNode(isLeaf) == [isLeaf |-> isLeaf, unbalanced |-> FALSE, inodes |-> <<>>]

NoPage == [ok |-> TRUE, page |-> ZeroPage]

(* the arguments put is called with: a leaf's put(k, k, v, 0, flags), and a *)
(* branch's put(oldKey, key, nil, pgid, 0) as node.spill calls it          *)
LeafPutArgs ==
    {[op |-> "put", oldKey |-> k, key |-> k, value |-> v, pgid |-> 0, flags |-> 0] :
        k \in LeafKeys, v \in Values}
    \cup
    {[op |-> "put", oldKey |-> k, key |-> k, value |-> <<1>>, pgid |-> 0, flags |-> 1] :
        k \in Keys}
BranchPutArgs ==
    {[op |-> "put", oldKey |-> ok, key |-> k, value |-> <<>>, pgid |-> 7, flags |-> 0] :
        ok \in Keys, k \in Keys}

NodeInit ==
    /\ n \in {FreshNode(TRUE), FreshNode(FALSE)}
    /\ pre = n
    /\ last = NoOp
    /\ hist = "puts"
    /\ ops = 0
    /\ pg = NoPage
    /\ wn = n
    /\ rn = FreshNode(FALSE)
    /\ arena = Idle.arena
    /\ bucket = Idle.bucket
    /\ db = Idle.db
    /\ tx = Idle.tx
    /\ phase = Idle.status
    /\ slog = Idle.log
    /\ calls = 0
    /\ edits = 0
    /\ stack = <<>>

Editing == last.op \in {"none", "put", "del"} /\ ops < MaxOps

Put(a) ==
    /\ Editing
    /\ n.isLeaf <=> a \in LeafPutArgs
    /\ n' = put(n, a.oldKey, a.key, a.value, a.pgid, a.flags)
    /\ pre' = n
    /\ last' = a
    /\ hist' = IF a.oldKey = a.key /\ a.pgid = 0 /\ a.flags = 0 THEN hist ELSE "keyed"
    /\ ops' = ops + 1
    /\ UNCHANGED <<pg, wn, rn>>
    /\ UNCHANGED treeVars
    /\ UNCHANGED stack

Del(k) ==
    /\ Editing
    /\ n' = del(n, k)
    /\ pre' = n
    /\ last' = [NoOp EXCEPT !.op = "del", !.key = k]
    /\ hist' = IF hist = "puts" THEN "edits" ELSE hist
    /\ ops' = ops + 1
    /\ UNCHANGED <<pg, wn, rn>>
    /\ UNCHANGED treeVars
    /\ UNCHANGED stack

(* var buf [4096]byte; n.write(p) *)
Write ==
    /\ last.op \in {"put", "del"}
    /\ pg' = write(ZeroPage, n)
    /\ wn' = n
    /\ last' = [NoOp EXCEPT !.op = "write"]
    /\ UNCHANGED <<n, pre, hist, ops, rn>>
    /\ UNCHANGED treeVars
    /\ UNCHANGED stack

(* n := &node{}; n.read(p) *)
Read ==
    /\ last.op = "write"
    /\ pg.ok
    /\ rn' = read(FreshNode(FALSE), pg.page)
    /\ last' = [NoOp EXCEPT !.op = "read"]
    /\ UNCHANGED <<n, pre, hist, ops, pg, wn>>
    /\ UNCHANGED treeVars
    /\ UNCHANGED stack

NodeNext ==
    \/ \E a \in LeafPutArgs : Put(a)
    \/ \E a \in BranchPutArgs : Put(a)
    \/ \E k \in LeafKeys : Del(k)
    \/ Write
    \/ Read

SpecNode == NodeInit /\ [][NodeNext]_vars

---------------------------------------------------------------------------
(* A write transaction on a tree: keys are put into and deleted from the   *)
(* leaves they belong to, then the root is spilled.                        *)

TreeKeys == 1..MaxTreeKey

State == [arena |-> arena, bucket |-> bucket, db |-> db, tx |-> tx,
          status |-> "ok", mapOk |-> TRUE, ret |-> 0, calls |-> 0, log |-> NoLog]

NodeIdle ==
    /\ n = FreshNode(TRUE)
    /\ pre = n
    /\ last = NoOp
    /\ hist = "puts"
    /\ ops = 0
    /\ pg = NoPage
    /\ wn = n
    /\ rn = FreshNode(FALSE)
    /\ stack = <<>>

Begun(s) ==
    /\ arena = s.arena
    /\ bucket = s.bucket
    /\ db = s.db
    /\ tx = s.tx

TreeInit ==
    /\ NodeIdle
    /\ \E d \in Databases : Begun(rooted(d))
    /\ phase = "open"
    /\ slog = NoLog
    /\ calls = 0
    /\ edits = 0

(* the leaf the cursor stopped at takes the edit *)
Edited(s, key, isPut) ==
    /\ arena' = [s.arena EXCEPT ![s.ret] = IF isPut THEN put(@, key, key, <<9>>, 0, 0)
                                                    ELSE del(@, key)]
    /\ bucket' = s.bucket

BucketPut(k) ==
    /\ phase = "open"
    /\ edits < MaxEdits
    /\ Edited(seek(State, bucket.rootNode, <<k>>), <<k>>, TRUE)
    /\ edits' = edits + 1
    /\ UNCHANGED <<db, tx, phase, slog, calls>>
    /\ UNCHANGED nodeVars

BucketDelete(k) ==
    /\ phase = "open"
    /\ edits < MaxEdits
    /\ Edited(seek(State, bucket.rootNode, <<k>>), <<k>>, FALSE)
    /\ edits' = edits + 1
    /\ UNCHANGED <<db, tx, phase, slog, calls>>
    /\ UNCHANGED nodeVars

Spilled(s) ==
    /\ arena' = s.arena
    /\ bucket' = s.bucket
    /\ db' = s.db
    /\ tx' = s.tx
    /\ phase' = IF s.status = "ok" THEN "done" ELSE s.status
    /\ slog' = s.log
    /\ calls' = s.calls

Spill(mapOk) ==
    /\ phase \in {"open", "rebalancing"}
    /\ Spilled(spill([State EXCEPT !.mapOk = mapOk, !.log = slog], bucket.rootNode))
    /\ UNCHANGED edits
    /\ UNCHANGED nodeVars

(* Commit rebalances the nodes of the bucket that deletes touched: one of  *)
(* the cached nodes at a time, in the order a map is ranged over           *)
Rebalanced(s) ==
    /\ arena' = s.arena
    /\ bucket' = s.bucket
    /\ db' = s.db
    /\ tx' = s.tx
    /\ phase' = IF s.status = "ok" THEN "rebalancing" ELSE s.status
    /\ slog' = s.log

Rebalance(id) ==
    /\ phase \in {"open", "rebalancing"}
    /\ Len(slog.rebalances) < MaxRebalances
    /\ \E q \in DOMAIN bucket.nodes : bucket.nodes[q] = id
    /\ Rebalanced(rebalance([State EXCEPT !.log = slog], id))
    /\ UNCHANGED <<calls, edits>>
    /\ UNCHANGED nodeVars

TreeNext ==
    \/ \E k \in TreeKeys : BucketPut(k)
    \/ \E k \in TreeKeys : BucketDelete(k)
    \/ \E mapOk \in BOOLEAN : Spill(mapOk)

SpecTree == TreeInit /\ [][TreeNext]_vars

(* a root branch over two leaves with room for keys below the first key of *)
(* the first leaf and between the two leaves                               *)
WideLeaves ==
    [pgid |-> 8, ids |-> {6, 7},
     pages |-> [id \in {3, 4, 5} |->
        IF id = 3 THEN pageOf(3, FALSE, <<branchInode(2, 4), branchInode(8, 5)>>)
        ELSE IF id = 4 THEN pageOf(4, TRUE, <<leafInode(2), leafInode(3)>>)
        ELSE pageOf(5, TRUE, <<leafInode(8)>>)]]

SpillInit ==
    /\ NodeIdle
    /\ \E tree \in {TwoLeaves, WideLeaves} :
          Begun(rooted([tree |-> tree, pageSize |-> 60, FillPercent |-> 50]))
    /\ phase = "open"
    /\ slog = NoLog
    /\ calls = 0
    /\ edits = 0

SpecSpill == SpillInit /\ [][TreeNext]_vars

RebalanceNext ==
    \/ \E k \in TreeKeys : BucketPut(k)
    \/ \E k \in TreeKeys : BucketDelete(k)
    \/ \E id \in 1..Len(arena) : Rebalance(id)

SpecRebalance == TreeInit /\ [][RebalanceNext]_vars

---------------------------------------------------------------------------
(* A write transaction whose nodes point into the mapped data file: nodes  *)
(* are materialized from the mapping, and the file is mapped again.        *)

mappedAt(s) == [s EXCEPT !.db.datasz = mmapSize(s.db.filesz), !.db.gen = 1]

rootedOver(d) == asRoot(bucketNodeOver(mappedAt(begin(d)), 3, 0))

DerefInit ==
    /\ NodeIdle
    /\ \E d \in Databases : Begun(rootedOver(d))
    /\ phase = "mapped"
    /\ slog = NoLog
    /\ calls = 0
    /\ edits = 0

Remapped(s) ==
    /\ arena' = s.arena
    /\ bucket' = s.bucket
    /\ db' = s.db
    /\ tx' = s.tx
    /\ phase' = IF s.status = "ok" THEN "mapped" ELSE s.status
    /\ slog' = s.log

(* Bucket.node(pgid, parent) on an entry of a branch, as a cursor does *)
Materialize(id, k) ==
    /\ phase = "mapped"
    /\ Len(arena) < MaxNodes
    /\ ~arena[id].isLeaf
    /\ k \in 1..Len(arena[id].inodes)
    /\ arena[id].inodes[k].pgid \notin DOMAIN bucket.nodes
    /\ Remapped(bucketNodeOver([State EXCEPT !.log = slog], arena[id].inodes[k].pgid, id))
    /\ UNCHANGED <<calls, edits>>
    /\ UNCHANGED nodeVars

Dereference(id) ==
    /\ phase = "mapped"
    /\ Len(slog.derefs) < MaxDerefs
    /\ Remapped(dereferenceLogged([State EXCEPT !.log = slog],
                                  dereference([State EXCEPT !.log = slog], id), id, FALSE))
    /\ UNCHANGED <<calls, edits>>
    /\ UNCHANGED nodeVars

(* Db.mmap as Db.allocate calls it for one page at the high-water mark *)
Mmap(mapOk) ==
    /\ phase = "mapped"
    /\ Len(slog.derefs) < MaxDerefs
    /\ Remapped(mmapOver([State EXCEPT !.log = slog, !.mapOk = mapOk],
                         (tx.meta.pgid + 2) * db.pageSize))
    /\ UNCHANGED <<calls, edits>>
    /\ UNCHANGED nodeVars

DerefNext ==
    \/ \E id \in 1..Len(arena) : \E k \in 1..4 : Materialize(id, k)
    \/ \E id \in 1..Len(arena) : Dereference(id)
    \/ \E mapOk \in BOOLEAN : Mmap(mapOk)

SpecDeref == DerefInit /\ [][DerefNext]_vars

---------------------------------------------------------------------------
(* A write transaction that allocates pages: Db.allocate is called with    *)
(* one count after another, and the operating system may refuse to map.    *)

(* page sizes that make the mapping of 32KB run out after a few pages *)
PagedDatabases ==
    Databases \cup {[tree |-> TwoLeaves, pageSize |-> 4096, FillPercent |-> 50],
                    [tree |-> ThreeLevels, pageSize |-> 4096, FillPercent |-> 50]}

AllocInit ==
    /\ NodeIdle
    /\ \E d \in PagedDatabases : Begun(rooted(d)) \/ Begun(mappedAt(rooted(d)))
    /\ phase = "open"
    /\ slog = NoLog
    /\ calls = 0
    /\ edits = 0

(* one call of Db.allocate, for the log: the count, what the freelist had  *)
(* to offer, the transaction before and after, the result *)
allocationRecord(before, s, count) ==
    [count |-> count, fid |-> freelistAllocate(before.db.freelist.ids, count),
     before |-> snapshot(before), after |-> snapshot(s),
     status |-> s.status, page |-> allocatedPage(s, count)]

Allocated(before, s, count) ==
    /\ arena' = s.arena
    /\ bucket' = s.bucket
    /\ db' = s.db
    /\ tx' = s.tx
    /\ phase' = s.status
    /\ slog' = [slog EXCEPT !.allocations = Append(@, allocationRecord(before, s, count))]

Allocate(count, mapOk) ==
    /\ phase \in {"open", "ok"}
    /\ Len(slog.allocations) < MaxAllocations
    /\ Allocated(State, allocate([State EXCEPT !.mapOk = mapOk], count), count)
    /\ UNCHANGED <<calls, edits>>
    /\ UNCHANGED nodeVars

AllocNext == \E count \in 1..MaxCount : \E mapOk \in BOOLEAN : Allocate(count, mapOk)

SpecAllocate == AllocInit /\ [][AllocNext]_vars

---------------------------------------------------------------------------
(* A write transaction on a database that Open has just initialised.       *)

EmptyFile == [size |-> 0, pages |-> <<>>, metas |-> <<>>]

(* a write transaction on a Db, begun from one of its meta pages *)
beginOn(d, m) ==
    [arena |-> <<>>,
     bucket |-> [FillPercent |-> 50, nodes |-> <<>>, rootNode |-> 0],
     db |-> d,
     tx |-> [meta |-> [pgid |-> m.pgid, txid |-> m.txid + 1], pages |-> <<>>,
             stats |-> [Spill |-> 0, Split |-> 0, Rebalance |-> 0, NodeDeref |-> 0]],
     status |-> "ok", mapOk |-> TRUE, ret |-> 0, calls |-> 0, log |-> NoLog]

(* both meta pages of a new file are valid and of the same txid: the       *)
(* transaction may begin from either                                       *)
FreshInit ==
    /\ NodeIdle
    /\ \E i \in 1..2 :
          Begun(beginOn(open(EmptyFile, defaultPageSize).db,
                        open(EmptyFile, defaultPageSize).db.metas[i]))
    /\ phase = "open"
    /\ slog = NoLog
    /\ calls = 0
    /\ edits = 0

SpecFresh == FreshInit /\ [][AllocNext]_vars

---------------------------------------------------------------------------
(* node.splitIndex on a leaf of more than 2 * minKeysPerPage entries.      *)

(* leaf entries with the keys 1 .. k and values of no or one byte *)
RECURSIVE entriesUpTo(_)
entriesUpTo(k) ==
    IF k = 0 THEN {<<>>}
    ELSE {Append(q, [flags |-> 0, pgid |-> 0, key |-> <<k>>, value |-> v]) :
             q \in entriesUpTo(k - 1), v \in Values}

SplitLeaves ==
    {[isLeaf |-> TRUE, inodes |-> q] :
        q \in UNION {entriesUpTo(k) : k \in (2 * minKeysPerPage + 1)..MaxInodes}}

SplitIndexInit ==
    /\ NodeIdle
    /\ Begun(beginOn(dbOn(EmptyFile, defaultPageSize), initMeta(0, defaultPageSize)))
    /\ phase = "open"
    /\ slog = NoLog
    /\ calls = 0
    /\ edits = 0

(* n.splitIndex(threshold) *)
SplitIndex(nd, threshold) ==
    /\ phase = "open"
    /\ phase' = "split"
    /\ slog' = [slog EXCEPT !.checks =
                    Append(@, [op |-> "splitIndex", node |-> nd, threshold |-> threshold,
                               index |-> splitIndex(nd, threshold).index,
                               sz |-> splitIndex(nd, threshold).sz])]
    /\ UNCHANGED <<arena, bucket, db, tx, calls, edits>>
    /\ UNCHANGED nodeVars

SplitIndexNext ==
    \E nd \in SplitLeaves : \E threshold \in pageHeaderSize..MaxThreshold :
        SplitIndex(nd, threshold)

SpecSplitIndex == SplitIndexInit /\ [][SplitIndexNext]_vars

---------------------------------------------------------------------------
(* pgids: sorted slices of page ids and their merge.                       *)

(* sort.Search(Len(lead), func(i) lead[i] > x) between i and j, 0-based *)
RECURSIVE sortSearch(_, _, _, _)
sortSearch(lead, x, i, j) ==
    IF i >= j THEN i
    ELSE IF ~(lead[(i + j) \div 2 + 1] > x) THEN sortSearch(lead, x, (i + j) \div 2 + 1, j)
    ELSE sortSearch(lead, x, i, (i + j) \div 2)

(* copy(dst, src), and append(dst[:0], src...) into a dst that is as long *)
copy(dst, src) ==
    IF Len(src) >= Len(dst) THEN SubSeq(src, 1, Len(dst))
    ELSE src \o SubSeq(dst, Len(src) + 1, Len(dst))

(* a mergepgids that does not append what is left in follow *)
appendFollowNone(dst, merged, follow) == copy(dst, merged)

(* _ = append(merged, follow...) *)
appendFollow(dst, merged, follow) == copy(dst, merged \o follow)

(* for len(lead) > 0 { n := sort.Search(...); merged = append(merged,      *)
(* lead[:n]...); if n >= len(lead) { break }; lead, follow = follow,       *)
(* lead[n:] }, n being given as from                                       *)
RECURSIVE mergeLoop(_, _, _, _, _)
mergeLoop(dst, merged, lead, follow, from) ==
    IF Len(lead) = 0 THEN appendFollow(dst, merged, follow)
    ELSE IF from >= Len(lead) THEN appendFollow(dst, merged \o lead, follow)
    ELSE mergeLoop(dst, merged \o SubSeq(lead, 1, from), follow,
                   SubSeq(lead, from + 1, Len(lead)),
                   sortSearch(follow, lead[from + 1], 0, Len(follow)))

(* mergepgids(dst, a, b): whether it panics, and dst after it *)
mergepgids(dst, a, b) ==
    IF Len(dst) < Len(a) + Len(b) THEN [status |-> "panic", dst |-> dst]
    ELSE IF Len(a) = 0 THEN [status |-> "ok", dst |-> copy(dst, b)]
    ELSE IF Len(b) = 0 THEN [status |-> "ok", dst |-> copy(dst, a)]
    ELSE IF b[1] < a[1]
    THEN [status |-> "ok",
          dst |-> mergeLoop(dst, <<>>, b, a, sortSearch(b, a[1], 0, Len(b)))]
    ELSE [status |-> "ok",
          dst |-> mergeLoop(dst, <<>>, a, b, sortSearch(a, b[1], 0, Len(a)))]

(* make(pgids, k) *)
make(k) == tuple([i \in 1..k |-> 0], k)

(* pgids.merge *)
merge(a, b) ==
    IF Len(a) = 0 THEN b
    ELSE IF Len(b) = 0 THEN a
    ELSE mergepgids(make(Len(a) + Len(b)), a, b).dst

RECURSIVE seqsUpTo(_)
seqsUpTo(k) ==
    IF k = 0 THEN {<<>>}
    ELSE seqsUpTo(k - 1) \cup {Append(q, id) : q \in seqsUpTo(k - 1), id \in 1..MaxId}

isSorted(q) == \A i \in 1..(Len(q) - 1) : q[i] <= q[i + 1]

(* the sorted slices of at most MaxIds page ids *)
Pgids == {q \in seqsUpTo(MaxIds) : isSorted(q)}

MergeInit ==
    /\ NodeIdle
    /\ Begun(beginOn(dbOn(EmptyFile, defaultPageSize), initMeta(0, defaultPageSize)))
    /\ phase = "open"
    /\ slog = NoLog
    /\ calls = 0
    /\ edits = 0

(* a.merge(b) *)
Merge(a, b) ==
    /\ phase = "open"
    /\ phase' = "merge"
    /\ slog' = [slog EXCEPT !.checks =
                    Append(@, [op |-> "merge", a |-> a, b |-> b, ret |-> merge(a, b)])]
    /\ UNCHANGED <<arena, bucket, db, tx, calls, edits>>
    /\ UNCHANGED nodeVars

(* mergepgids(make(pgids, k), a, b) *)
Mergepgids(k, a, b) ==
    /\ phase = "open"
    /\ phase' = mergepgids(make(k), a, b).status
    /\ slog' = [slog EXCEPT !.checks =
                    Append(@, [op |-> "mergepgids", a |-> a, b |-> b, before |-> make(k),
                               dst |-> mergepgids(make(k), a, b).dst])]
    /\ UNCHANGED <<arena, bucket, db, tx, calls, edits>>
    /\ UNCHANGED nodeVars

MergeNext ==
    \/ \E a \in Pgids : \E b \in Pgids : Merge(a, b)
    \/ \E k \in 0..(2 * MaxIds + 1) : \E a \in Pgids : \E b \in Pgids : Mergepgids(k, a, b)

SpecMerge == MergeInit /\ [][MergeNext]_vars

---------------------------------------------------------------------------
(* Db.mmapSize on one size after another.                                  *)

(* sizes around the powers of two, the steps of 1GB and maxMapSize *)
LowBytes ==
    {0, 1, pow2(minMmapShift) + 1, pow2(20) + 1, pow2(maxMmapShift) - defaultPageSize}

Steps ==
    {0, 1, pow2(maxMapShift - maxMmapShift) - 2, pow2(maxMapShift - maxMmapShift) - 1,
     pow2(maxMapShift - maxMmapShift)}

Sizes == {[hi |-> hi, lo |-> lo] : hi \in Steps, lo \in LowBytes}

SizeInit ==
    /\ NodeIdle
    /\ Begun(beginOn(dbOn(EmptyFile, defaultPageSize), initMeta(0, defaultPageSize)))
    /\ phase = "open"
    /\ slog = NoLog
    /\ calls = 0
    /\ edits = 0

(* db.mmapSize(size) on a Db of the page size of the system *)
MmapSize(sz) ==
    /\ Len(slog.checks) < MaxSizes
    /\ slog' = [slog EXCEPT !.checks =
                    Append(@, [op |-> "mmapSize", arg |-> sz,
                               err |-> mmapSizeWide(sz, db.pageSize).err,
                               size |-> mmapSizeWide(sz, db.pageSize).size])]
    /\ UNCHANGED <<arena, bucket, db, tx, phase, calls, edits>>
    /\ UNCHANGED nodeVars

SizeNext == \E sz \in Sizes : MmapSize(sz)

SpecMmapSize == SizeInit /\ [][SizeNext]_vars

---------------------------------------------------------------------------
(* Loading a data file: Open, then Db.mmap.                                *)

MetaKinds == {"valid", "unsummed", "version", "checksum"}

(* a meta page as a commit wrote it, or as a torn or foreign write left it *)
metaOfKind(m, kind) ==
    IF kind = "version" THEN [m EXCEPT !.version = tinyDBVersion + 1]
    ELSE IF kind = "checksum" THEN [m EXCEPT !.checksum[1] = (sum64(m)[1] + 1) % 65536]
    ELSE IF kind = "unsummed" THEN [m EXCEPT !.checksum = Zero64]
    ELSE m

writtenMeta(pgid, txid) ==
    summed([version |-> tinyDBVersion, pageSize |-> defaultPageSize, pgid |-> pgid,
            txid |-> txid, checksum |-> Zero64])

(* files of one line of text, of less than the bytes Open reads, of one    *)
(* page, and of four pages                                                 *)
FileSizes == {textLineSize, metaReadSize - 1, defaultPageSize, defaultPageSize * 4}

Files ==
    {EmptyFile} \cup
    {[size |-> sz, pages |-> init(defaultPageSize).pages,
      metas |-> <<metaOfKind(writtenMeta(4, txid), k0),
                  metaOfKind(writtenMeta(4 + txid, 1), k1)>>] :
        sz \in FileSizes, k0 \in MetaKinds, k1 \in MetaKinds, txid \in 0..2}

OpenInit ==
    /\ NodeIdle
    /\ \E file \in Files : Begun(beginOn(dbOn(file, defaultPageSize), writtenMeta(0, 0)))
    /\ phase = "closed"
    /\ slog = NoLog
    /\ calls = 0
    /\ edits = 0

(* the data file under the Db of the state *)
fileOf(d) == [size |-> d.filesz, pages |-> d.pages, metas |-> d.metas]

Opened(file, r) ==
    /\ db' = dbOn(r.file, db.pageSize)
    /\ phase' = IF r.status = "ok" THEN "opened" ELSE r.status
    /\ slog' = [slog EXCEPT !.checks =
                    Append(@, [op |-> "open", before |-> file, status |-> r.status,
                               db |-> r.db, after |-> r.file])]
    /\ calls' = calls + 1

(* Open(path), on a path not opened yet or opened before *)
Open ==
    /\ phase \in {"closed", "opened"}
    /\ calls < MaxOpens
    /\ Opened(fileOf(db), open(fileOf(db), db.pageSize))
    /\ UNCHANGED <<arena, bucket, tx, edits>>
    /\ UNCHANGED nodeVars

(* the file with a field of both of its meta structs incremented, as        *)
(* ioutil.WriteFile writes it back                                         *)
rewritten(file, field) ==
    [file EXCEPT !.metas =
        IF field = "version"
        THEN <<[@[1] EXCEPT !.version = @ + 1], [@[2] EXCEPT !.version = @ + 1]>>
        ELSE <<[@[1] EXCEPT !.pgid = @ + 1], [@[2] EXCEPT !.pgid = @ + 1]>>]

(* a data file that was opened is read, changed and written back *)
Rewrite(field) ==
    /\ phase = "opened"
    /\ \A i \in 1..Len(slog.checks) : slog.checks[i].op # "rewrite"
    /\ db' = dbOn(rewritten(fileOf(db), field), db.pageSize)
    /\ phase' = "closed"
    /\ slog' = [slog EXCEPT !.checks =
                    Append(@, [op |-> "rewrite", field |-> field, before |-> fileOf(db)])]
    /\ UNCHANGED <<arena, bucket, tx, calls, edits>>
    /\ UNCHANGED nodeVars

Mapped(s) ==
    /\ db' = s.db
    /\ phase' = IF s.status = "ok" THEN "mapped" ELSE s.status

(* db.mmap(0) on the Db that Open returned *)
MmapOpened(mapOk) ==
    /\ phase = "opened"
    /\ Mapped(mmapOpened([State EXCEPT !.mapOk = mapOk], 0))
    /\ UNCHANGED <<arena, bucket, tx, slog, calls, edits>>
    /\ UNCHANGED nodeVars

OpenNext ==
    \/ Open
    \/ \E field \in {"version", "pgid"} : Rewrite(field)
    \/ \E mapOk \in BOOLEAN : MmapOpened(mapOk)

SpecOpen == OpenInit /\ [][OpenNext]_vars

---------------------------------------------------------------------------
(* A meta struct that is summed and validated.                             *)

(* the image with one of its bits flipped; bit 0 is the lowest of byte 0 *)
flipBit(image, bit) ==
    [image EXCEPT ![bit \div 8 + 1] = xorBits(@, pow2(bit % 8), 8)]

ChecksumKinds == {"valid", "unsummed", "checksum"}

Metas ==
    {metaOfKind([writtenMeta(pgid, txid) EXCEPT !.version = version], kind) :
        version \in 0..(tinyDBVersion + 1), pgid \in 0..MaxPgid, txid \in 0..MaxTxid,
        kind \in ChecksumKinds}

MetaInit ==
    /\ NodeIdle
    /\ \E m \in Metas :
          Begun([beginOn(dbOn(EmptyFile, defaultPageSize), m) EXCEPT !.tx.meta = m])
    /\ phase = "written"
    /\ slog = NoLog
    /\ calls = 0
    /\ edits = 0

Checked(rec) ==
    /\ slog' = [slog EXCEPT !.checks = Append(@, rec)]
    /\ phase' = rec.op

(* m.validate() on the meta of the transaction *)
Validate ==
    /\ phase = "written"
    /\ Checked([op |-> "validate", meta |-> tx.meta, err |-> validate(tx.meta),
                after |-> tx.meta])
    /\ UNCHANGED <<arena, bucket, db, tx, calls, edits>>
    /\ UNCHANGED nodeVars

(* m.sum64() on the meta and on a copy of it with one bit flipped *)
Sum64(bit) ==
    /\ phase = "written"
    /\ Checked([op |-> "sum64", meta |-> tx.meta, bit |-> bit,
                sum |-> sum64(tx.meta),
                flipped |-> sum64At(flipBit(metaImage(tx.meta), bit))])
    /\ UNCHANGED <<arena, bucket, db, tx, calls, edits>>
    /\ UNCHANGED nodeVars

MetaNext == Validate \/ \E bit \in 0..(checksumOffset * 8 + 63) : Sum64(bit)

SpecMeta == MetaInit /\ [][MetaNext]_vars

---------------------------------------------------------------------------
(* What the claims about put, del, write and read say *)

StrictlyAscending(inodes) ==
    \A i \in 1..(Len(inodes) - 1) : bytesCompare(inodes[i].key, inodes[i + 1].key) = -1

HasKey(inodes, k) == \E i \in 1..Len(inodes) : bytesEqual(inodes[i].key, k)

countKey(inodes, k) == Cardinality({i \in 1..Len(inodes) : bytesEqual(inodes[i].key, k)})

(* number of entries whose key is below k: where k belongs in a sorted list *)
countBelow(inodes, k) ==
    Cardinality({i \in 1..Len(inodes) : bytesCompare(inodes[i].key, k) = -1})

insertAt(s, i, e) == SubSeq(s, 1, i) \o <<e>> \o SubSeq(s, i + 1, Len(s))

lastInode == [flags |-> last.flags, pgid |-> last.pgid, key |-> last.key,
              value |-> last.value]

(* C1: after any sequence of put(k, k, v, 0, 0) on an initially empty node the *)
(* keys of n.inodes are strictly ascending.                                 *)
C1_PutsKeepAscending ==
    hist = "puts" => StrictlyAscending(n.inodes)

(* C2: put(k, k, v, pgid, flags) of a key absent from a sorted node inserts *)
(* exactly one entry at the index of the first key >= k and shifts the     *)
(* later entries right; nothing that was there is lost or overwritten.     *)
C2_PutInsertsAbsentKey ==
    (/\ last.op = "put"
     /\ last.oldKey = last.key
     /\ StrictlyAscending(pre.inodes)
     /\ ~HasKey(pre.inodes, last.key))
    => n.inodes = insertAt(pre.inodes, countBelow(pre.inodes, last.key), lastInode)

(* C3: put(oldKey, key, ...) with oldKey # key on a node that holds oldKey  *)
(* replaces that entry: same number of entries, none with oldKey, none     *)
(* added, and the new key carries the new value and pgid.                  *)
C3_PutReplacesOldKey ==
    (/\ last.op = "put"
     /\ last.oldKey # last.key
     /\ StrictlyAscending(pre.inodes)
     /\ HasKey(pre.inodes, last.oldKey))
    => /\ Len(n.inodes) = Len(pre.inodes)
       /\ ~HasKey(n.inodes, last.oldKey)
       /\ countKey(n.inodes, <<>>) = countKey(pre.inodes, <<>>)
       /\ \E i \in 1..Len(n.inodes) : n.inodes[i] = lastInode

(* C4: put(k, k, v2, ...) of a key already put leaves the number of entries *)
(* unchanged, exactly one entry with key k, and its value is v2.           *)
C4_PutOverwritesPresentKey ==
    (/\ hist = "puts"
     /\ last.op = "put"
     /\ last.key # <<>>
     /\ HasKey(pre.inodes, last.key))
    => /\ Len(n.inodes) = Len(pre.inodes)
       /\ countKey(n.inodes, last.key) = 1
       /\ \A i \in 1..Len(n.inodes) :
              bytesEqual(n.inodes[i].key, last.key) => n.inodes[i].value = last.value

(* C5: del(key) leaves the node unchanged when no entry has the key, and   *)
(* otherwise removes exactly that entry, keeps the order of the others and *)
(* sets unbalanced; del(k) twice is del(k) once.                           *)
C5_DelRemovesExactlyTheKey ==
    (hist # "keyed" /\ last.op = "del" /\ last.key # <<>>)
    => /\ ~HasKey(pre.inodes, last.key) => n = pre
       /\ HasKey(pre.inodes, last.key) =>
              /\ n.unbalanced
              /\ n.isLeaf = pre.isLeaf
              /\ \E i \in 1..Len(pre.inodes) :
                     /\ bytesEqual(pre.inodes[i].key, last.key)
                     /\ n.inodes = removeAt(pre.inodes, i - 1)
       /\ del(n, last.key) = n

SameEntries(a, b) ==
    /\ Len(a) = Len(b)
    /\ \A i \in 1..Len(a) :
           /\ a[i].flags = b[i].flags
           /\ a[i].key = b[i].key
           /\ a[i].value = b[i].value

(* C6: for a leaf node, write into a zeroed page followed by read into a   *)
(* fresh node completes and gives back the inodes element-wise: the same   *)
(* count and order, the same flags, keys and values.                       *)
C6_WriteReadRoundTrip ==
    /\ (last.op = "write" /\ wn.isLeaf) => pg.ok
    /\ (last.op = "read" /\ wn.isLeaf) => (rn.isLeaf /\ SameEntries(rn.inodes, wn.inodes))

---------------------------------------------------------------------------
(* What the claims about spill and split say *)

Nodes == 1..Len(arena)

pendingIds == {db.freelist.pending[i] : i \in 1..Len(db.freelist.pending)}

HasEntry(inodes, key, pgid) ==
    \E i \in 1..Len(inodes) : inodes[i].key = key /\ inodes[i].pgid = pgid

ceilDiv(a, b) == (a + b - 1) \div b

RECURSIVE concat(_, _)
concat(ss, k) == IF k = 0 THEN <<>> ELSE concat(ss, k - 1) \o ss[k]

(* C7: after spill of the root has returned without error, every node of   *)
(* the tree (the root, every materialized descendant, every sibling made   *)
(* by a split, a new root) is spilled, has no children listed and has a    *)
(* page id that is not 0 and is not pending in the freelist.               *)
C7_SpillLeavesEveryNodeWritten ==
    phase = "done" =>
        \A id \in Nodes :
            /\ arena[id].spilled
            /\ arena[id].children = <<>>
            /\ arena[id].pgid # 0
            /\ arena[id].pgid \notin pendingIds

(* a spill without error that split a node, made a new root and freed the *)
(* pages the nodes were read from *)
C7_Witness ==
    /\ phase = "done"
    /\ tx.stats.Split > 0
    /\ Len(db.freelist.pending) > 0
    /\ \E id \in Nodes : id # bucket.rootNode /\ arena[id].parent = 0
    /\ \E id \in Nodes : arena[id].isLeaf /\ arena[id].parent # 0

(* C8: spill updates the parent of a node it writes with oldKey = node.key *)
(* (the first inode key when node.key is nil), key = the first inode key   *)
(* and the new pgid, and sets node.key to that key; so after a spill       *)
(* without error the parent of every node that has one holds an entry with *)
(* the node's first key and the node's pgid.                               *)
C8_ParentHoldsEntryOfWrittenNode ==
    phase = "done" =>
        /\ \A i \in 1..Len(slog.puts) :
              LET r == slog.puts[i]
              IN /\ r.oldKey = (IF r.nodeKey = <<>> THEN r.key ELSE r.nodeKey)
                 /\ r.key = arena[r.node].inodes[1].key
                 /\ r.pgid = arena[r.node].pgid
                 /\ arena[r.node].key = r.key
                 /\ r.parent = arena[r.node].parent
        /\ \A id \in Nodes :
              arena[id].parent # 0 =>
                  HasEntry(arena[arena[id].parent].inodes,
                           arena[id].inodes[1].key, arena[id].pgid)

(* the nodes a node was split into by this spill, itself included *)
partsOf(id) ==
    {id} \cup UNION {{slog.splits[i].nodes[k] : k \in 1..Len(slog.splits[i].nodes)} :
                        i \in {j \in 1..Len(slog.splits) : slog.splits[j].node = id}}

(* C8, amended: spill updates the parent as C8 says, and after a spill     *)
(* without error the entry with the node's first key and pgid is held by   *)
(* the node's parent or by a node that parent was split into afterwards    *)
(* (a node keeps pointing at the parent it had when it was written).       *)
C8_EntryInParentOrItsSplit ==
    phase = "done" =>
        /\ \A i \in 1..Len(slog.puts) :
              LET r == slog.puts[i]
              IN /\ r.oldKey = (IF r.nodeKey = <<>> THEN r.key ELSE r.nodeKey)
                 /\ r.key = arena[r.node].inodes[1].key
                 /\ r.pgid = arena[r.node].pgid
                 /\ arena[r.node].key = r.key
                 /\ r.parent = arena[r.node].parent
        /\ \A id \in Nodes :
              arena[id].parent # 0 =>
                  \E q \in partsOf(arena[id].parent) :
                      HasEntry(arena[q].inodes, arena[id].inodes[1].key, arena[id].pgid)

(* a spill without error that wrote nodes read from pages and siblings   *)
(* made by a split, after which the entry of a node is held by a node its *)
(* parent was split into *)
C8_Witness ==
    /\ phase = "done"
    /\ \E id \in Nodes :
          /\ arena[id].parent # 0
          /\ ~HasEntry(arena[arena[id].parent].inodes, arena[id].inodes[1].key, arena[id].pgid)
    /\ \E i \in 1..Len(slog.puts) : slog.puts[i].nodeKey = <<>>
    /\ \E i \in 1..Len(slog.puts) : slog.puts[i].nodeKey # <<>>

(* C9: for every node it writes spill asks the allocator for exactly       *)
(* ceil(size / pageSize) pages, and those pages hold size bytes.           *)
C9_SpillAllocatesCeilOfSize ==
    \A i \in 1..Len(slog.allocs) :
        /\ slog.allocs[i].count = ceilDiv(slog.allocs[i].size, db.pageSize)
        /\ slog.allocs[i].count * db.pageSize >= slog.allocs[i].size

(* C10: split returns the node first, the inodes of the nodes returned are *)
(* together the inodes the node had, in order, and when more than one node *)
(* is returned each holds at least minKeysPerPage inodes and all have the  *)
(* same parent, which lists each of them among its children.               *)
C10_SplitPartitionsTheInodes ==
    \A i \in 1..Len(slog.splits) :
        LET r == slog.splits[i]
        IN /\ r.nodes[1] = r.node
           /\ concat(r.inodes, Len(r.inodes)) = r.before
           /\ Len(r.nodes) > 1 =>
                 \A k \in 1..Len(r.nodes) :
                     /\ Len(r.inodes[k]) >= minKeysPerPage
                     /\ r.parents[k] = r.parents[1]
                     /\ r.parents[k] # 0
                     /\ r.listed[k]

(* a split into three nodes, and a split of a branch that has a parent *)
C10_Witness ==
    /\ \E i \in 1..Len(slog.splits) : Len(slog.splits[i].nodes) = 3
    /\ phase = "done"

(* C11: split of a node that has at most 4 inodes, or whose serialized     *)
(* size is below the page size, returns the node alone and changes         *)
(* nothing: no node is created, no parent is set, no children list and no  *)
(* inodes change, and the Split counter stays.                             *)
C11_SmallNodeIsNotSplit ==
    \A i \in 1..Len(slog.splits) :
        LET r == slog.splits[i]
        IN (Len(r.before) <= 4 \/ size(r.arenaBefore[r.node]) < db.pageSize) =>
              /\ r.nodes = <<r.node>>
              /\ r.arenaAfter = r.arenaBefore
              /\ r.splitsAfter = r.splitsBefore

(* split was called on a parentless node of more than 4 inodes that fit a *)
(* page *)
C11_Witness ==
    \E i \in 1..Len(slog.splits) :
        LET r == slog.splits[i]
        IN /\ Len(r.before) > 4
           /\ size(r.arenaBefore[r.node]) < db.pageSize
           /\ r.parentBefore = 0

(* the size of the k-th node of a split, and the inodes right of it *)
partSize(r, k) == size([isLeaf |-> r.arenaBefore[r.node].isLeaf, inodes |-> r.inodes[k]])

RECURSIVE restLen(_, _)
restLen(r, k) == IF k >= Len(r.inodes) THEN 0 ELSE Len(r.inodes[k + 1]) + restLen(r, k + 1)

(* C12: when a node is split in two with page size P and fill percent f   *)
(* (clamped to 10..100 percent), the size of the left side (page header    *)
(* plus its entries) is at most f*P whenever the right side is left with   *)
(* at least minKeysPerPage entries.                                        *)
C12_LeftSideWithinThreshold ==
    \A i \in 1..Len(slog.splits) :
        LET r == slog.splits[i]
        IN \A k \in 1..(Len(r.nodes) - 1) :
              restLen(r, k) >= minKeysPerPage =>
                  partSize(r, k) * 100 <= clampFillPercent(bucket.FillPercent) * db.pageSize

(* C12, amended: the size of the left side is at most f*P whenever the     *)
(* left side holds more than minKeysPerPage entries (a left side of        *)
(* exactly minKeysPerPage entries is kept however large it is).            *)
C12_LeftSideOverMinKeysWithinThreshold ==
    \A i \in 1..Len(slog.splits) :
        LET r == slog.splits[i]
        IN \A k \in 1..(Len(r.nodes) - 1) :
              (restLen(r, k) >= minKeysPerPage /\ Len(r.inodes[k]) > minKeysPerPage) =>
                  partSize(r, k) * 100 <= clampFillPercent(bucket.FillPercent) * db.pageSize

(* a split that left more than minKeysPerPage entries on the left side *)
C12_Witness ==
    \E i \in 1..Len(slog.splits) :
        LET r == slog.splits[i]
        IN /\ Len(r.nodes) > 1
           /\ Len(r.inodes[1]) > minKeysPerPage
           /\ restLen(r, 1) >= minKeysPerPage

(* the node a call of rebalance was made on, as it was then *)
rebalanced(r) == r.before.arena[r.node]

(* above a quarter of a page, with more than minKeys entries *)
wellFilled(nd) ==
    /\ size(nd) * 4 > db.pageSize
    /\ Len(nd.inodes) > (IF nd.isLeaf THEN 1 ELSE 2)

(* C13: rebalance changes nothing when unbalanced is false; when it is     *)
(* true and the node is above pageSize/4 with more than minKeys entries,   *)
(* rebalance clears unbalanced and counts one Rebalance and that is all:   *)
(* inodes, children, parents, the node map and the freelist stay, and no   *)
(* other node is rebalanced.                                               *)
C13_RebalanceLeavesFilledNodes ==
    \A i \in 1..Len(slog.rebalances) :
        LET r == slog.rebalances[i]
        IN /\ ~rebalanced(r).unbalanced => (r.after = r.before /\ r.next = 0)
           /\ (rebalanced(r).unbalanced /\ wellFilled(rebalanced(r))) =>
                 /\ r.after = [r.before EXCEPT !.arena[r.node].unbalanced = FALSE,
                                                !.tx.stats.Rebalance = @ + 1]
                 /\ r.next = 0

(* rebalance was called on an unbalanced leaf below a branch that is well  *)
(* filled, and on a node that is not unbalanced *)
C13_Witness ==
    /\ \E i \in 1..Len(slog.rebalances) :
          /\ rebalanced(slog.rebalances[i]).unbalanced
          /\ wellFilled(rebalanced(slog.rebalances[i]))
          /\ rebalanced(slog.rebalances[i]).parent # 0
    /\ \E i \in 1..Len(slog.rebalances) : ~rebalanced(slog.rebalances[i]).unbalanced

(* an unbalanced node that is not well filled *)
underfull(nd) == nd.unbalanced /\ ~wellFilled(nd)

(* the places of the entries of a page id among the inodes of a branch *)
placesOf(inodes, pgid) == {i \in 1..Len(inodes) : inodes[i].pgid = pgid}

(* the node of a page in a state, and the inodes it has or would be read with *)
nodeOfPage(snap, pgid) ==
    IF pgid \in DOMAIN snap.bucket.nodes THEN snap.bucket.nodes[pgid]
    ELSE Len(snap.arena) + 1

inodesOfPage(snap, pgid) ==
    IF pgid \in DOMAIN snap.bucket.nodes THEN snap.arena[snap.bucket.nodes[pgid]].inodes
    ELSE read(newNode(FALSE, 0), snap.db.pages[pgid]).inodes

listedIn(nd, id) == \E c \in 1..Len(nd.children) : nd.children[c] = id

pendingOf(snap) == {snap.db.freelist.pending[i] : i \in 1..Len(snap.db.freelist.pending)}

(* the call after this one in the log is the call on the parent, made in  *)
(* the state this call left *)
thenRebalances(i, parent) ==
    /\ slog.rebalances[i].next = parent
    /\ i < Len(slog.rebalances)
    /\ slog.rebalances[i + 1].node = parent
    /\ slog.rebalances[i + 1].before = slog.rebalances[i].after

(* what C14 says of the call r on a node at place `place` of its parent,  *)
(* merged with the sibling of page sibPg at place sibPlace                 *)
mergedWith(i, r, place, sibPlace, sibPg) ==
    LET b == r.before
        a == r.after
        nd == rebalanced(r)
        first == place = 1
        sib == nodeOfPage(b, sibPg)
        survivor == IF first THEN r.node ELSE sib
        absorbed == IF first THEN sib ELSE r.node
        absorbedPg == IF first THEN sibPg ELSE nd.pgid
        absorbedPlace == IF first THEN sibPlace ELSE place
        left == IF first THEN nd.inodes ELSE inodesOfPage(b, sibPg)
        right == IF first THEN inodesOfPage(b, sibPg) ELSE nd.inodes
    IN /\ r.target = sib
       /\ a.arena[survivor].inodes = left \o right
       /\ (StrictlyAscending(left) /\ StrictlyAscending(right)) =>
              StrictlyAscending(a.arena[survivor].inodes)
       /\ a.arena[nd.parent].inodes = removeAt(b.arena[nd.parent].inodes, absorbedPlace - 1)
       /\ ~listedIn(a.arena[nd.parent], absorbed)
       /\ absorbedPg \notin DOMAIN a.bucket.nodes
       /\ absorbedPg \in pendingOf(a) \ pendingOf(b)
       /\ \A k \in 1..Len(right) :
              right[k].pgid \in DOMAIN b.bucket.nodes =>
                  /\ a.arena[b.bucket.nodes[right[k].pgid]].parent = survivor
                  /\ listedIn(a.arena[survivor], b.bucket.nodes[right[k].pgid])
       /\ thenRebalances(i, nd.parent)

(* the calls of rebalance C14 is about *)
merging(r) ==
    /\ underfull(rebalanced(r))
    /\ rebalanced(r).parent # 0
    /\ rebalanced(r).inodes # <<>>

(* C14: an underfull node that has a parent and at least one entry merges  *)
(* with its right sibling if it is the first child of its parent and with  *)
(* its left sibling otherwise.  The surviving node holds the entries of    *)
(* the left node followed by those of the right node (strictly ascending   *)
(* as they were), the entry of the absorbed node is deleted from the       *)
(* parent, the absorbed node is no longer among the parent's children nor  *)
(* in the node map, its page is freed, the materialized children of the    *)
(* absorbed node have the survivor as parent, and the parent is rebalanced *)
(* next.                                                                   *)
C14_UnderfullNodeMergesWithSibling ==
    \A i \in 1..Len(slog.rebalances) :
        LET r == slog.rebalances[i]
            pin == r.before.arena[rebalanced(r).parent].inodes
        IN merging(r) =>
              \E place \in placesOf(pin, rebalanced(r).pgid) :
                  /\ Len(pin) >= 2
                  /\ IF place = 1
                     THEN mergedWith(i, r, place, 2, pin[2].pgid)
                     ELSE mergedWith(i, r, place, place - 1, pin[place - 1].pgid)

(* a first child that took the entries of its right sibling, and a branch *)
(* that gave its entries and a materialized child to its left sibling     *)
C14_Witness ==
    /\ \E i \in 1..Len(slog.rebalances) :
          LET r == slog.rebalances[i]
          IN /\ merging(r)
             /\ Len(r.after.arena[r.node].inodes) > Len(rebalanced(r).inodes)
    /\ \E i \in 1..Len(slog.rebalances) :
          LET r == slog.rebalances[i]
          IN /\ merging(r)
             /\ ~rebalanced(r).isLeaf
             /\ r.after.arena[r.target].inodes # inodesOfPage(r.before, r.after.arena[r.target].pgid)
             /\ \E k \in 1..Len(rebalanced(r).inodes) :
                    rebalanced(r).inodes[k].pgid \in DOMAIN r.before.bucket.nodes

(* the calls of rebalance C15 is about *)
emptied(r) ==
    /\ rebalanced(r).unbalanced
    /\ rebalanced(r).parent # 0
    /\ rebalanced(r).inodes = <<>>

(* what C15 says of the call r on a node whose entry is at `place` of the parent *)
removedAt(i, r, place) ==
    LET b == r.before
        a == r.after
        nd == rebalanced(r)
    IN /\ b.arena[nd.parent].inodes[place].key = nd.key
       /\ a.arena[nd.parent].inodes = removeAt(b.arena[nd.parent].inodes, place - 1)
       /\ ~listedIn(a.arena[nd.parent], r.node)
       /\ nd.pgid \notin DOMAIN a.bucket.nodes
       /\ nd.pgid \in pendingOf(a) \ pendingOf(b)
       /\ a.arena[r.node].pgid = 0
       /\ thenRebalances(i, nd.parent)

(* C15: rebalance on an unbalanced node that has a parent and no entry     *)
(* deletes the entry of the parent that has the key of the node, removes   *)
(* the node from the children of the parent and from the node map under    *)
(* the page id it had, frees its page, and after all that rebalances the   *)
(* parent.                                                                 *)
C15_EmptyNodeIsRemovedThenParentRebalanced ==
    \A i \in 1..Len(slog.rebalances) :
        emptied(slog.rebalances[i]) =>
            \E place \in placesOf(slog.rebalances[i].before.arena[
                                     rebalanced(slog.rebalances[i]).parent].inodes,
                                  rebalanced(slog.rebalances[i]).pgid) :
                removedAt(i, slog.rebalances[i], place)

(* a leaf that lost its entries was rebalanced, it was among the children  *)
(* of its parent, and the parent was rebalanced after it                   *)
C15_Witness ==
    \E i \in 1..Len(slog.rebalances) :
        /\ emptied(slog.rebalances[i])
        /\ listedIn(slog.rebalances[i].before.arena[rebalanced(slog.rebalances[i]).parent],
                    slog.rebalances[i].node)
        /\ i < Len(slog.rebalances)
        /\ rebalanced(slog.rebalances[i]).pgid # 0

(* the node of a page in a state: the cached one, or the one read from the page *)
nodeAtPage(snap, pgid) ==
    IF pgid \in DOMAIN snap.bucket.nodes THEN snap.arena[snap.bucket.nodes[pgid]]
    ELSE read(newNode(FALSE, 0), snap.db.pages[pgid])

(* the calls of rebalance C16 is about: an unbalanced, underfull root *)
onRoot(r) == underfull(rebalanced(r)) /\ rebalanced(r).parent = 0

(* the root took the place of its single child, the node of page childPg *)
collapsedInto(r, childPg) ==
    LET b == r.before
        a == r.after
        child == nodeAtPage(b, childPg)
    IN /\ a.arena[r.node].isLeaf = child.isLeaf
       /\ a.arena[r.node].inodes = child.inodes
       /\ a.arena[r.node].children = child.children
       /\ \A k \in 1..Len(child.inodes) :
              child.inodes[k].pgid \in DOMAIN b.bucket.nodes =>
                  a.arena[b.bucket.nodes[child.inodes[k].pgid]].parent = r.node
       /\ childPg \notin DOMAIN a.bucket.nodes
       /\ childPg \in pendingOf(a) \ pendingOf(b)

(* nothing but the flag and the counter of the call changed *)
unchangedBut(r) ==
    r.after = [r.before EXCEPT !.arena[r.node].unbalanced = FALSE,
                               !.tx.stats.Rebalance = @ + 1]

(* C16: rebalance on an unbalanced, underfull root that is a branch of one *)
(* entry gives the root the isLeaf, inodes and children of its single      *)
(* child, makes the root the parent of every materialized grandchild,      *)
(* removes the child from the node map and frees its page; a root that is  *)
(* a leaf, or a branch of two or more entries, keeps its structure.        *)
C16_RootCollapsesOntoSingleChild ==
    \A i \in 1..Len(slog.rebalances) :
        onRoot(slog.rebalances[i]) =>
            /\ slog.rebalances[i].next = 0
            /\ IF ~rebalanced(slog.rebalances[i]).isLeaf
                  /\ Len(rebalanced(slog.rebalances[i]).inodes) = 1
               THEN collapsedInto(slog.rebalances[i],
                                  rebalanced(slog.rebalances[i]).inodes[1].pgid)
               ELSE unchangedBut(slog.rebalances[i])

(* a root of one entry took over a branch that had a materialized child *)
C16_Witness ==
    /\ \E i \in 1..Len(slog.rebalances) :
          LET r == slog.rebalances[i]
          IN /\ onRoot(r)
             /\ ~rebalanced(r).isLeaf
             /\ Len(rebalanced(r).inodes) = 1
             /\ ~r.after.arena[r.node].isLeaf
             /\ \E k \in 1..Len(r.after.arena[r.node].inodes) :
                    r.after.arena[r.node].inodes[k].pgid \in DOMAIN r.before.bucket.nodes

(* the nodes reached from a node through children lists *)
RECURSIVE below(_, _)
below(ar, id) ==
    {id} \cup UNION {below(ar, ar[id].children[k]) : k \in 1..Len(ar[id].children)}

(* a slice that is a buffer made for node x since moment t, with the bytes of `was` *)
copied(was, now, x, t) ==
    /\ now.mem = "heap"
    /\ now.bytes = was.bytes
    /\ now.of[1] >= t
    /\ now.of[2] = x

(* the slices of a node, one by one *)
slicesOf(nd) ==
    (IF nd.key = nil THEN <<>> ELSE <<nd.key>>)
    \o tuple([i \in 1..(2 * Len(nd.inodes)) |->
                 IF i % 2 = 1 THEN nd.inodes[(i + 1) \div 2].key
                 ELSE nd.inodes[i \div 2].value],
             2 * Len(nd.inodes))

buffersOf(slices) == {slices[i].of : i \in 1..Len(slices)}

(* node x holds the entries it held, in the order it held them, in buffers *)
(* of its own that no two of its slices share                              *)
detached(was, now, x, t) ==
    /\ (was.key = nil) <=> (now.key = nil)
    /\ was.key # nil => copied(was.key, now.key, x, t)
    /\ Len(now.inodes) = Len(was.inodes)
    /\ \A i \in 1..Len(was.inodes) :
           /\ copied(was.inodes[i].key, now.inodes[i].key, x, t)
           /\ copied(was.inodes[i].value, now.inodes[i].value, x, t)
           /\ now.inodes[i].pgid = was.inodes[i].pgid
           /\ now.inodes[i].flags = was.inodes[i].flags
    /\ Cardinality(buffersOf(slicesOf(now))) = Len(slicesOf(now))

(* no slice of the node is a view into mapping number gen *)
noneInto(nd, gen) ==
    \A i \in 1..Len(slicesOf(nd)) :
        ~(slicesOf(nd)[i].mem = "mmap" /\ slicesOf(nd)[i].of = <<gen>>)

(* no slice of the node is a view into memory that is no longer mapped *)
noneStale(nd) ==
    \A i \in 1..Len(slicesOf(nd)) :
        slicesOf(nd)[i].mem = "mmap" => (db.datasz > 0 /\ slicesOf(nd)[i].of = <<db.gen>>)

(* C17: dereference replaces node.key and the key and value of every inode *)
(* of the node, and of every node reached through children lists, by       *)
(* freshly owned copies of the same bytes, entries and order kept.         *)
(* Db.mmap calls it on the root of the write transaction before it unmaps  *)
(* the old mapping: in the state the old mapping is unmapped in, and ever  *)
(* after, no key or value of a node reached from the root through children *)
(* lists is a view into a mapping that is gone.                            *)
C17_DereferenceDetachesTheSubtree ==
    /\ \A i \in 1..Len(slog.derefs) :
          LET r == slog.derefs[i]
          IN /\ \A x \in below(r.before.arena, r.node) :
                    detached(r.before.arena[x], r.after.arena[x], x,
                             r.before.tx.stats.NodeDeref)
             /\ r.remap =>
                    /\ r.node = r.before.bucket.rootNode
                    /\ r.after.db = r.before.db
                    /\ \A x \in below(r.after.arena, r.after.bucket.rootNode) :
                           noneInto(r.after.arena[x], r.before.db.gen)
    /\ \A x \in below(arena, bucket.rootNode) : noneStale(arena[x])

(* the file was mapped again while the root and a child of it held views   *)
(* into the old mapping, and a node was materialized from the new mapping  *)
C17_Witness ==
    /\ \E i \in 1..Len(slog.derefs) :
          LET r == slog.derefs[i]
          IN /\ r.remap
             /\ db.gen > r.before.db.gen
             /\ db.datasz > 0
             /\ \E x \in below(r.before.arena, r.node) :
                    /\ x # r.node
                    /\ ~noneInto(r.before.arena[x], r.before.db.gen)
    /\ \E x \in below(arena, bucket.rootNode) : ~noneInto(arena[x], db.gen)

(* the allocation was served by the freelist *)
fromFreelist(r) == r.fid # 0

(* the allocation was served at the high-water mark *)
atEnd(r) == r.fid = 0 /\ r.status = "ok"

(* C18: Db.allocate(count) returns a page whose overflow is count - 1.  If *)
(* the freelist supplies a span (a non-zero id) the page has that id and   *)
(* meta.pgid stays; otherwise the id is the meta.pgid of before and        *)
(* meta.pgid grows by exactly count.  So the spans taken at the high-water *)
(* mark are disjoint and strictly increasing, and a growth of the mapping  *)
(* that fails returns an error and leaves meta.pgid where it was.          *)
C18_AllocateTakesFreeSpanOrHighWaterMark ==
    /\ \A i \in 1..Len(slog.allocations) :
          LET r == slog.allocations[i]
          IN /\ r.status = "ok" => r.page.overflow = r.count - 1
             /\ fromFreelist(r) =>
                    /\ r.status = "ok"
                    /\ r.page.id = r.fid
                    /\ r.after.tx.meta.pgid = r.before.tx.meta.pgid
             /\ atEnd(r) =>
                    /\ r.page.id = r.before.tx.meta.pgid
                    /\ r.after.tx.meta.pgid = r.before.tx.meta.pgid + r.count
             /\ r.status # "ok" =>
                    /\ r.status = "error"
                    /\ r.after.tx.meta.pgid = r.before.tx.meta.pgid
    /\ \A i, j \in 1..Len(slog.allocations) :
          (i < j /\ atEnd(slog.allocations[i]) /\ atEnd(slog.allocations[j])) =>
              slog.allocations[i].page.id + slog.allocations[i].count
                  <= slog.allocations[j].page.id

(* the freelist served one call, the high-water mark two calls, the first *)
(* of them for more than one page and with a growth of the mapping, and a *)
(* later growth of the mapping failed                                     *)
C18_Witness ==
    /\ \E i \in 1..Len(slog.allocations) : fromFreelist(slog.allocations[i])
    /\ \E i, j \in 1..Len(slog.allocations) :
          /\ i < j
          /\ atEnd(slog.allocations[i]) /\ slog.allocations[i].count > 1
          /\ atEnd(slog.allocations[j])
          /\ slog.allocations[i].after.db.datasz > slog.allocations[i].before.db.datasz
          /\ slog.allocations[i].before.db.datasz > 0
    /\ \E i \in 1..Len(slog.allocations) :
          /\ slog.allocations[i].status = "error"
          /\ slog.allocations[i].fid = 0

(* the ids reserved in a new file: the meta pages, the freelist page, the leaf *)
reservedIds == 0..3

(* C19: in a database just initialised the high-water mark meta.pgid is    *)
(* above the id of every page of the file, so allocate never returns the   *)
(* id of a meta page (0, 1), of the freelist page (2) or of the first leaf *)
(* page (3).                                                               *)
C19_HighWaterMarkAboveReservedPages ==
    /\ \A pos \in DOMAIN db.pages : tx.meta.pgid > pos /\ tx.meta.pgid > db.pages[pos].id
    /\ \A i \in 1..Len(slog.allocations) :
          slog.allocations[i].status = "ok" =>
              slog.allocations[i].page.id \notin reservedIds

(* the outcome of a validation that failed *)
ValidationErrors == {"version mismatch", "checksum error"}

(* C20: loading a file fails on its meta pages only if both of them fail   *)
(* validation: with one of them corrupt (wrong version, checksum that does *)
(* not match) and the other valid, neither Open nor Db.mmap returns a      *)
(* validation error.                                                       *)
C20_LoadFailsOnlyIfBothMetasFail ==
    phase \in ValidationErrors =>
        /\ validate(db.metas[1]) # "ok"
        /\ validate(db.metas[2]) # "ok"

(* C21: validate returns ErrVersionMismatch whenever the version is not    *)
(* the format version 1, whatever the checksum; otherwise ErrChecksum when *)
(* the checksum is not zero and differs from sum64(); otherwise nil.  A    *)
(* zero checksum is never a checksum error, whatever pageSize, pgid and    *)
(* txid hold, and validate leaves the meta as it was.                      *)
C21_ValidateVersionThenChecksum ==
    \A i \in 1..Len(slog.checks) :
        slog.checks[i].op = "validate" =>
            /\ slog.checks[i].meta.version # 1 => slog.checks[i].err = "version mismatch"
            /\ (/\ slog.checks[i].meta.version = 1
                /\ slog.checks[i].meta.checksum # Zero64
                /\ slog.checks[i].meta.checksum # sum64(slog.checks[i].meta))
                   => slog.checks[i].err = "checksum error"
            /\ (/\ slog.checks[i].meta.version = 1
                /\ \/ slog.checks[i].meta.checksum = Zero64
                   \/ slog.checks[i].meta.checksum = sum64(slog.checks[i].meta))
                   => slog.checks[i].err = "ok"
            /\ slog.checks[i].meta.checksum = Zero64
                   => slog.checks[i].err # "checksum error"
            /\ slog.checks[i].after = slog.checks[i].meta
            /\ tx.meta = slog.checks[i].meta

(* a meta of another version whose checksum does not match was validated *)
C21_Witness ==
    /\ phase = "validate"
    /\ tx.meta.version = tinyDBVersion + 1
    /\ tx.meta.pgid = MaxPgid
    /\ tx.meta.checksum # Zero64
    /\ tx.meta.checksum # sum64(tx.meta)
    /\ slog.checks[1].err = "version mismatch"

opens == {i \in 1..Len(slog.checks) : slog.checks[i].op = "open"}

(* no rewrite of the file between two entries of the log *)
untouched(i, j) == \A k \in i..j : slog.checks[k].op # "rewrite"

(* a meta struct as Db.init leaves it *)
initialised(m, pageSize) ==
    /\ m.version = 1
    /\ m.pageSize = pageSize
    /\ m.checksum = sum64(m)
    /\ validate(m) = "ok"

(* C23: Open on a path with no file or with a file of length 0 leaves a    *)
(* file of exactly 4 * pageSize bytes whose two meta pages have version 1, *)
(* pageSize the page size of the system and checksum sum64(), and so pass  *)
(* validate; an Open of the same path after it succeeds and leaves the     *)
(* file as it is.                                                          *)
C23_OpenInitialisesAnEmptyFileOnce ==
    \A i \in opens :
        slog.checks[i].before.size = 0 =>
            /\ slog.checks[i].status = "ok"
            /\ slog.checks[i].db # NoDb
            /\ slog.checks[i].after.size = 4 * defaultPageSize
            /\ Len(slog.checks[i].after.metas) = 2
            /\ \A k \in 1..2 : initialised(slog.checks[i].after.metas[k], defaultPageSize)
            /\ \A j \in opens :
                  (j > i /\ untouched(i, j)) =>
                      /\ slog.checks[j].before = slog.checks[i].after
                      /\ slog.checks[j].status = "ok"
                      /\ slog.checks[j].after = slog.checks[j].before

(* a new file was opened three times *)
C23_Witness ==
    /\ Len(slog.checks) = 3
    /\ opens = {1, 2, 3}
    /\ slog.checks[1].before = EmptyFile
    /\ slog.checks[3].after.size = 4 * defaultPageSize
    /\ phase = "opened"

(* the error of Open after a field of both meta structs was changed *)
rewriteError(field) == IF field = "version" THEN "version mismatch" ELSE "checksum error"

(* C24: when the version of both meta pages of an initialised file is      *)
(* changed on disk Open returns ErrVersionMismatch, and when the pgid of   *)
(* both is changed, the stored checksum left as it was, Open returns       *)
(* ErrChecksum; no Db is returned in either case.                          *)
C24_RewrittenMetasAreRejected ==
    \A i \in 1..Len(slog.checks) :
        (/\ slog.checks[i].op = "rewrite"
         /\ slog.checks[i].before = init(defaultPageSize)
         /\ i + 1 \in opens)
            => /\ slog.checks[i + 1].status = rewriteError(slog.checks[i].field)
               /\ slog.checks[i + 1].db = NoDb
               /\ slog.checks[i + 1].before.metas[1].checksum
                      = init(defaultPageSize).metas[1].checksum

(* a new file was opened, the pgid of its meta pages changed, and opened   *)
(* again: checksum error                                                   *)
C24_Witness ==
    /\ Len(slog.checks) = 3
    /\ slog.checks[1].op = "open" /\ slog.checks[1].before = EmptyFile
    /\ slog.checks[2].op = "rewrite" /\ slog.checks[2].field = "pgid"
    /\ slog.checks[3].op = "open"
    /\ phase = "checksum error"

(* C25: Open on a file that is not empty and shorter than the region Open  *)
(* reads returns ErrInvalid and no Db and leaves the file as it is; Open   *)
(* writes only to a file of size 0.                                        *)
C25_ShortFileIsInvalidAndUntouched ==
    \A i \in opens :
        /\ (slog.checks[i].before.size > 0 /\ slog.checks[i].before.size < metaReadSize)
               => /\ slog.checks[i].status = "invalid"
                  /\ slog.checks[i].db = NoDb
        /\ slog.checks[i].before.size # 0 => slog.checks[i].after = slog.checks[i].before

(* a file of one line of text was opened *)
C25_Witness ==
    /\ phase = "invalid"
    /\ Len(slog.checks) = 1
    /\ slog.checks[1].before.size = textLineSize
    /\ db.filesz = textLineSize

(* the flags of the page at a position of a new file: two meta pages, the  *)
(* freelist page, an empty leaf page                                       *)
flagsAt(pos) ==
    IF pos < 2 THEN metaPageFlag ELSE IF pos = 2 THEN freelistPageFlag ELSE leafPageFlag

(* C26: a file just initialised is four pages whose header id is their     *)
(* position in the file, 0 to 3: pages 0 and 1 are meta pages (flags =     *)
(* meta, then the meta struct), page 2 is the freelist page and page 3 the *)
(* empty leaf page.                                                        *)
C26_InitialPagesCarryTheirPositionAndKind ==
    \A i \in opens :
        slog.checks[i].before.size = 0 =>
            /\ DOMAIN slog.checks[i].after.pages = 0..3
            /\ \A pos \in 0..3 :
                  /\ slog.checks[i].after.pages[pos].id = pos
                  /\ slog.checks[i].after.pages[pos].flags = flagsAt(pos)

(* the calls of Db.mmapSize in the log *)
sized == {i \in 1..Len(slog.checks) : slog.checks[i].op = "mmapSize"}

oneGiB == [hi |-> 1, lo |-> 0]

(* the smallest power of two from 32KB to 1GB that is at least sz *)
isSmallestPowerOver(got, sz) ==
    \E k \in minMmapShift..maxMmapShift :
        /\ got = wide(pow2(k))
        /\ leq(sz, got)
        /\ k > minMmapShift => ~leq(sz, wide(pow2(k - 1)))

(* sz rounded up to a multiple of 1GB, and no more than the maximum *)
isNextGiBCapped(got, sz) ==
    IF sz.lo = 0 THEN got = sz
    ELSE IF sz.hi + 1 < pow2(maxMapShift - maxMmapShift) THEN got = [hi |-> sz.hi + 1, lo |-> 0]
    ELSE got = [hi |-> pow2(maxMapShift - maxMmapShift) - 1, lo |-> pow2(maxMmapShift) - 1]

(* C27: mmapSize(size) is the smallest power of two from 32KB to 1GB that  *)
(* is at least size when size is at most 1GB; for a larger size it is size *)
(* rounded up to a multiple of 1GB, and at most the maximum of 256TB; it   *)
(* is an error when size is above the maximum; a size returned is at least *)
(* the size asked for, and a larger size never gets a smaller result.      *)
C27_MmapSizeDoublesThenStepsByOneGiB ==
    \A i \in sized :
        /\ leq(slog.checks[i].arg, oneGiB)
               => /\ slog.checks[i].err = "ok"
                  /\ isSmallestPowerOver(slog.checks[i].size, slog.checks[i].arg)
        /\ (~leq(slog.checks[i].arg, oneGiB) /\ leq(slog.checks[i].arg, maxMapSize))
               => /\ slog.checks[i].err = "ok"
                  /\ isNextGiBCapped(slog.checks[i].size, slog.checks[i].arg)
        /\ ~leq(slog.checks[i].arg, maxMapSize) => slog.checks[i].err # "ok"
        /\ slog.checks[i].err = "ok" => leq(slog.checks[i].arg, slog.checks[i].size)
        /\ \A j \in sized :
              (/\ slog.checks[i].err = "ok"
               /\ slog.checks[j].err = "ok"
               /\ leq(slog.checks[i].arg, slog.checks[j].arg))
                  => leq(slog.checks[i].size, slog.checks[j].size)

(* a size of one byte over 1MB got 2MB, and a size of one byte under the   *)
(* maximum got the maximum                                                 *)
C27_Witness ==
    /\ Len(slog.checks) = 2
    /\ slog.checks[1].arg = wide(pow2(20) + 1)
    /\ slog.checks[1].size = wide(pow2(21))
    /\ slog.checks[2].arg = [hi |-> pow2(maxMapShift - maxMmapShift) - 1,
                             lo |-> pow2(maxMmapShift) - defaultPageSize]
    /\ slog.checks[2].size = maxMapSize

(* the number of times id occurs in q *)
occurrences(q, id) == Cardinality({i \in 1..Len(q) : q[i] = id})

(* q is the sorted union of a and b, an id of both being kept twice *)
isSortedUnion(q, a, b) ==
    /\ Len(q) = Len(a) + Len(b)
    /\ isSorted(q)
    /\ \A id \in 1..(MaxId + 1) : occurrences(q, id) = occurrences(a, id) + occurrences(b, id)

(* C28: for sorted a and b, a.merge(b) is sorted, of length len(a)+len(b)  *)
(* and holds every element of both; mergepgids(dst, a, b) leaves that      *)
(* sequence in dst, the elements left over in one slice when the other is  *)
(* exhausted included, and panics when len(dst) < len(a)+len(b).           *)
C28_MergeIsTheSortedUnion ==
    \A i \in 1..Len(slog.checks) :
        /\ slog.checks[i].op = "merge"
               => isSortedUnion(slog.checks[i].ret, slog.checks[i].a, slog.checks[i].b)
        /\ slog.checks[i].op = "mergepgids"
               => IF Len(slog.checks[i].before) < Len(slog.checks[i].a) + Len(slog.checks[i].b)
                  THEN phase = "panic"
                  ELSE /\ phase = "ok"
                       /\ Len(slog.checks[i].dst) = Len(slog.checks[i].before)
                       /\ SubSeq(slog.checks[i].dst, 1,
                                 Len(slog.checks[i].a) + Len(slog.checks[i].b))
                              = merge(slog.checks[i].a, slog.checks[i].b)
                       /\ isSortedUnion(merge(slog.checks[i].a, slog.checks[i].b),
                                        slog.checks[i].a, slog.checks[i].b)
                       /\ \A k \in (Len(slog.checks[i].a) + Len(slog.checks[i].b) + 1)
                                      ..Len(slog.checks[i].dst) : slog.checks[i].dst[k] = 0

(* 1, 3 and 2, 3, 3 were merged into a dst of five: the lead changes twice *)
(* and 3, 3 is left over in follow                                         *)
C28_Witness ==
    /\ phase = "ok"
    /\ slog.checks[1].op = "mergepgids"
    /\ slog.checks[1].a = <<1, 3>>
    /\ slog.checks[1].b = <<2, 3, 3>>
    /\ slog.checks[1].dst = <<1, 2, 3, 3, 3>>

(* the branch nodes of the transaction *)
branches == {id \in Nodes : ~arena[id].isLeaf}

(* the page ids the entries of a node refer to *)
referenced(id) == {arena[id].inodes[i].pgid : i \in 1..Len(arena[id].inodes)}

(* the children a branch page of the data file had: the pages its elements *)
(* point at                                                                *)
childrenOnPage(p) ==
    {read(newNode(FALSE, 0), db.pages[p]).inodes[i].pgid : i \in 1..db.pages[p].count}

(* the children that were there before the spill and were not read into a *)
(* node: those of the branch pages the spill freed that it did not free    *)
keptChildren ==
    UNION {childrenOnPage(p) \ pendingIds :
              p \in {q \in pendingIds \cap DOMAIN db.pages :
                         ~BitTest(db.pages[q].flags, leafPageFlag)}}

(* C29: after a spill without error every branch node has exactly one      *)
(* entry for each of its children: every child there was before the spill, *)
(* read into a node or not, and every sibling a split made is referenced;  *)
(* no entry has an empty key or the page id 0, no two entries refer to the *)
(* same child, and none refers to a page the spill freed.                  *)
C29_BranchHasOneEntryPerChild ==
    phase = "done" =>
        /\ \A b \in branches :
              /\ \A i \in 1..Len(arena[b].inodes) :
                    /\ arena[b].inodes[i].key # <<>>
                    /\ arena[b].inodes[i].pgid # 0
                    /\ arena[b].inodes[i].pgid \notin pendingIds
              /\ Cardinality(referenced(b)) = Len(arena[b].inodes)
        /\ \A id \in Nodes :
              arena[id].parent # 0 =>
                  \E q \in partsOf(arena[id].parent) : arena[id].pgid \in referenced(q)
        /\ \A p \in keptChildren : \E b \in branches : p \in referenced(b)

(* the indexes from minKeysPerPage to upTo at which the page header and    *)
(* the entries 0 .. i together are above the threshold                     *)
overThreshold(r, upTo) ==
    {i \in minKeysPerPage..upTo : prefixSize(r.node, i + 1) > r.threshold}

(* C30: on a node of more than 2 * minKeysPerPage entries splitIndex       *)
(* returns the smallest index i >= minKeysPerPage at which pageHeaderSize  *)
(* plus the sizes of the entries 0 .. i is strictly above the threshold,   *)
(* as long as i <= len(inodes) - minKeysPerPage; an entry that brings the  *)
(* size to exactly the threshold stays on the left; and the index is never *)
(* above len(inodes) - minKeysPerPage.                                     *)
C30_SplitIndexIsFirstEntryOverThreshold ==
    \A k \in 1..Len(slog.checks) :
        slog.checks[k].op = "splitIndex" =>
            /\ \A i \in overThreshold(slog.checks[k],
                                      Len(slog.checks[k].node.inodes) - minKeysPerPage) :
                  (\A j \in overThreshold(slog.checks[k],
                                          Len(slog.checks[k].node.inodes) - minKeysPerPage) :
                      i <= j)
                     => slog.checks[k].index = i
            /\ \A i \in minKeysPerPage..(Len(slog.checks[k].node.inodes) - minKeysPerPage) :
                  prefixSize(slog.checks[k].node, i + 1) = slog.checks[k].threshold
                     => slog.checks[k].index > i
            /\ slog.checks[k].index <= Len(slog.checks[k].node.inodes) - minKeysPerPage

---------------------------------------------------------------------------
(* A write transaction that only deletes: the keys are deleted from their  *)
(* leaves, then the cached nodes are rebalanced.                           *)

DeleteNext ==
    \/ \E k \in TreeKeys : BucketDelete(k)
    \/ \E id \in 1..Len(arena) : Rebalance(id)

SpecDelete == TreeInit /\ [][DeleteNext]_vars

(* the nodes of the node map of a state, and those of them marked unbalanced *)
cachedIn(snap) == {snap.bucket.nodes[q] : q \in DOMAIN snap.bucket.nodes}

unbalancedIn(snap) == {id \in cachedIn(snap) : snap.arena[id].unbalanced}

(* the nodes linked below a node: the nodes of the pages its entries refer *)
(* to, cached or as they are read from their pages, and those below them   *)
RECURSIVE linkedBelow(_, _)
linkedBelow(snap, nd) ==
    IF nd.isLeaf THEN {}
    ELSE UNION {{nodeAtPage(snap, nd.inodes[i].pgid)}
                   \cup linkedBelow(snap, nodeAtPage(snap, nd.inodes[i].pgid)) :
                i \in 1..Len(nd.inodes)}

linked == linkedBelow(snapshot(State), arena[bucket.rootNode])

(* C31: after deletes, once rebalance has run on every node marked         *)
(* unbalanced, every node linked in the tree other than the root has at    *)
(* least minKeys entries, 2 for a branch and 1 for a leaf; and a call of   *)
(* rebalance leaves no node unbalanced that was not so before, but the     *)
(* parent it goes on to rebalance.                                         *)
C31_RebalancedNodesHaveMinKeys ==
    /\ (phase = "rebalancing" /\ unbalancedIn(snapshot(State)) = {}) =>
          \A nd \in linked : Len(nd.inodes) >= (IF nd.isLeaf THEN 1 ELSE 2)
    /\ \A i \in 1..Len(slog.rebalances) :
          unbalancedIn(slog.rebalances[i].after) \subseteq
              (unbalancedIn(slog.rebalances[i].before) \ {slog.rebalances[i].node})
                 \cup ({slog.rebalances[i].next} \ {0})

(* every unbalanced node was rebalanced after three deletes, one of them   *)
(* was merged with a sibling and a branch below the root is left           *)
C31_Witness ==
    /\ phase = "rebalancing"
    /\ edits = MaxEdits
    /\ unbalancedIn(snapshot(State)) = {}
    /\ \E i \in 1..Len(slog.rebalances) : merging(slog.rebalances[i])
    /\ \E nd \in linked : ~nd.isLeaf


(* the parent of the node a call of rebalance was made on, as it was then  *)
parentOf(r) == r.before.arena[rebalanced(r).parent]

(* the page of the sibling the merge step selects: that of the entry after *)
(* the node when childIndex is 0, that of the entry before it otherwise    *)
siblingPage(r) ==
    IF childIndex(parentOf(r), rebalanced(r)) = 0 THEN parentOf(r).inodes[2].pgid
    ELSE parentOf(r).inodes[childIndex(parentOf(r), rebalanced(r))].pgid

(* C32: rebalance does not fail on the trees a transaction works on: when  *)
(* it reaches the merge step for a node that has a parent, the parent is a *)
(* branch of at least two entries, so childAt is not called on a leaf, and *)
(* the sibling selected (the next one for index 0, the previous one        *)
(* otherwise) is there: it is a node other than the node itself, the node  *)
(* of the page of that entry of the parent.                                *)
C32_RebalanceFindsItsSibling ==
    /\ phase # "panic"
    /\ \A i \in 1..Len(slog.rebalances) :
          merging(slog.rebalances[i]) =>
              /\ Len(parentOf(slog.rebalances[i]).inodes) >= 2
              /\ ~parentOf(slog.rebalances[i]).isLeaf
              /\ childIndex(parentOf(slog.rebalances[i]), rebalanced(slog.rebalances[i]))
                    < Len(parentOf(slog.rebalances[i]).inodes)
              /\ slog.rebalances[i].target # 0
              /\ slog.rebalances[i].target # slog.rebalances[i].node
              /\ slog.rebalances[i].target =
                    nodeOfPage(slog.rebalances[i].before, siblingPage(slog.rebalances[i]))

(* a leaf that is not the first child of its parent merged with its        *)
(* previous sibling, and a branch that is the last of the two children of  *)
(* the root with its own                                                   *)
C32_Witness ==
    /\ \E i \in 1..Len(slog.rebalances) :
          /\ merging(slog.rebalances[i])
          /\ rebalanced(slog.rebalances[i]).isLeaf
          /\ childIndex(parentOf(slog.rebalances[i]), rebalanced(slog.rebalances[i])) >= 1
    /\ \E i \in 1..Len(slog.rebalances) :
          /\ merging(slog.rebalances[i])
          /\ ~rebalanced(slog.rebalances[i]).isLeaf
          /\ Len(parentOf(slog.rebalances[i]).inodes) = 2
          /\ childIndex(parentOf(slog.rebalances[i]), rebalanced(slog.rebalances[i])) = 1


(* the nodes a spill wrote, by its log of allocations, and the calls of    *)
(* tx.allocate that returned an error to it                                *)
writtenNodes == {slog.allocs[i].node : i \in 1..Len(slog.allocs)}

failures == {k \in 1..Len(slog.checks) : slog.checks[k].op = "spill"}

(* C33: when the allocator fails while spill is at a node, spill returns   *)
(* the error at once through every level: there is no further allocation,  *)
(* the node it failed at and the nodes it had not reached are not written, *)
(* not marked spilled, and have put no entry into a parent, and the nodes  *)
(* written before are still marked spilled.                                *)
C33_AllocatorErrorEndsTheSpill ==
    phase = "error" =>
        /\ Cardinality(failures) = 1
        /\ \A k \in failures :
              /\ k = Len(slog.checks)
              /\ slog.checks[k].err = "error"
              /\ slog.checks[k].node \notin writtenNodes
              /\ arena[slog.checks[k].node].pgid = 0
        /\ \A id \in Nodes : arena[id].spilled <=> id \in writtenNodes
        /\ \A id \in Nodes \ writtenNodes :
              /\ \A i \in 1..Len(slog.puts) : slog.puts[i].node # id
              /\ arena[id].pgid \notin DOMAIN tx.pages
        /\ \A i \in 1..Len(slog.allocs) :
              /\ arena[slog.allocs[i].node].pgid = slog.allocs[i].id
              /\ slog.allocs[i].id \in DOMAIN tx.pages
        /\ tx.stats.Spill = Len(slog.allocs)

(* the allocator failed at a node below the root after another node was    *)
(* written, and a node other than the failing one was not reached          *)
C33_Witness ==
    /\ phase = "error"
    /\ slog.allocs # <<>>
    /\ \A k \in failures : arena[slog.checks[k].node].parent # 0
    /\ \E id \in Nodes \ writtenNodes : \A k \in failures : slog.checks[k].node # id


---------------------------------------------------------------------------
(* The commit of a write transaction that deleted keys: the cached nodes   *)
(* are rebalanced, then the root is spilled.                               *)

CommitNext ==
    \/ \E k \in TreeKeys : BucketDelete(k)
    \/ \E id \in 1..Len(arena) : Rebalance(id)
    \/ \E mapOk \in BOOLEAN : Spill(mapOk)

SpecCommit == TreeInit /\ [][CommitNext]_vars

(* the nodes spill visits from a node: the node and, through the lists of   *)
(* children, the nodes below it                                            *)
RECURSIVE visited(_)
visited(id) ==
    {id} \cup UNION {visited(arena[id].children[c]) : c \in 1..Len(arena[id].children)}

(* C34: within one write transaction no page id is handed to freelist.free *)
(* twice, whatever the deletes, the calls of rebalance and the spill: the  *)
(* pages pending in the freelist are all different, a node whose page was  *)
(* freed has pgid 0 until it is written again, and a node that rebalance   *)
(* absorbed or removed is in no list of children the spill walks from the  *)
(* root and is not written by the spill.                                   *)
C34_NoPageIsFreedTwice ==
    /\ \A i, j \in 1..Len(db.freelist.pending) :
          i # j => db.freelist.pending[i] # db.freelist.pending[j]
    /\ \A id \in Nodes : arena[id].pgid \notin pendingIds
    /\ \A i \in 1..Len(slog.rebalances) :
          LET r == slog.rebalances[i]
          IN \A gone \in cachedIn(r.before) \ cachedIn(r.after) :
                /\ arena[gone].pgid = 0
                /\ ~arena[gone].spilled
                /\ gone \notin writtenNodes
                /\ gone \notin visited(bucket.rootNode)

(* a spill without error after a rebalance that freed the page of a node   *)
(* it absorbed: pages freed by rebalance and by spill are both pending     *)
C34_Witness ==
    /\ phase = "done"
    /\ \E i \in 1..Len(slog.rebalances) :
          /\ merging(slog.rebalances[i])
          /\ cachedIn(slog.rebalances[i].before) \ cachedIn(slog.rebalances[i].after) # {}
    /\ Len(db.freelist.pending) >= 3


(* C35: the check of the high-water mark in spill does not fire: every     *)
(* page the allocator returns to spill, taken from the freelist or from    *)
(* the end of the file, has an id below meta.pgid when spill looks at it,  *)
(* and so have the pages that follow it in its span.                       *)
C35_AllocatedPageIsBelowHighWaterMark ==
    \A i \in 1..Len(slog.allocs) :
        /\ slog.allocs[i].id < slog.allocs[i].mark
        /\ slog.allocs[i].id + slog.allocs[i].count <= slog.allocs[i].mark

(* a spill took a page from the freelist, below the pages in use, and      *)
(* later a page at the end of the file, which moved the high-water mark    *)
C35_Witness ==
    \E i, j \in 1..Len(slog.allocs) :
        /\ i < j
        /\ slog.allocs[i].id + slog.allocs[i].count < slog.allocs[i].mark
        /\ slog.allocs[j].mark > slog.allocs[i].mark
        /\ slog.allocs[j].id + slog.allocs[j].count = slog.allocs[j].mark


(* the in-order walk of the leaves below a node of a state: the entries of *)
(* a leaf, or the walks of the children of a branch one after the other,   *)
(* each child being the cached node of its page or the node read from it   *)
RECURSIVE walk(_, _)
RECURSIVE walkFrom(_, _, _)
walkFrom(snap, nd, i) ==
    IF i > Len(nd.inodes) THEN <<>>
    ELSE walk(snap, nodeAtPage(snap, nd.inodes[i].pgid)) \o walkFrom(snap, nd, i + 1)

walk(snap, nd) == IF nd.isLeaf THEN nd.inodes ELSE walkFrom(snap, nd, 1)

walkOf(snap) == walk(snap, snap.arena[snap.bucket.rootNode])

(* the key/value pairs of a list of leaf entries *)
pairsOf(inodes) == {<<inodes[i].key, inodes[i].value>> : i \in 1..Len(inodes)}

(* the tree as the transaction found it: the pages alone, from the page of *)
(* the root, with nothing cached                                           *)
walkOfPages ==
    walk([snapshot(State) EXCEPT !.bucket.nodes = <<>>],
         read(newNode(FALSE, 0), db.pages[arena[bucket.rootNode].pgid]))

(* C36: rebalance does not change the key/value pairs of the leaves: the   *)
(* in-order walk of the leaves is the same after every call of rebalance   *)
(* as before it, and after deletes and calls of rebalance the walk is in   *)
(* strictly ascending key order, without duplicates, and holds the pairs   *)
(* the tree had before, less at most one pair for each delete.             *)
C36_RebalanceKeepsTheLeafEntries ==
    /\ \A i \in 1..Len(slog.rebalances) :
          walkOf(slog.rebalances[i].after) = walkOf(slog.rebalances[i].before)
    /\ StrictlyAscending(walkOf(snapshot(State)))
    /\ pairsOf(walkOf(snapshot(State))) \subseteq pairsOf(walkOfPages)
    /\ Len(walkOf(snapshot(State))) >= Len(walkOfPages) - edits

(* after deletes, a merge of two leaves, the removal of an empty leaf and  *)
(* the collapse of the root were all made, and pairs are left              *)
C36_Witness ==
    /\ \E i \in 1..Len(slog.rebalances) :
          merging(slog.rebalances[i]) /\ rebalanced(slog.rebalances[i]).isLeaf
    /\ \E i \in 1..Len(slog.rebalances) : emptied(slog.rebalances[i])
    /\ \E i \in 1..Len(slog.rebalances) :
          /\ onRoot(slog.rebalances[i])
          /\ Len(rebalanced(slog.rebalances[i]).inodes) = 1
          /\ ~rebalanced(slog.rebalances[i]).isLeaf
    /\ Len(walkOf(snapshot(State))) >= 1
    /\ Len(walkOf(snapshot(State))) < Len(walkOfPages)


---------------------------------------------------------------------------
(* node.spill followed step by step.  A call of spill is a frame: the node *)
(* it was made on, where it is in its code, the index i of the loop over   *)
(* the children, the node the loop of split is at, the nodes split has     *)
(* returned so far and the place k of the loop over them.                  *)

MaxStepKey == 2      \* keys <<1>> .. <<MaxStepKey>> are put and deleted
MaxStepEdits == 2    \* puts and deletes before the commit

frame(id) == [node |-> id, pc |-> "enter", i |-> 0, cur |-> id, nodes |-> <<>>, k |-> 1]

top == stack[Len(stack)]

(* the frames when the call on top moves on, and when it returns *)
moved(f) == [stack EXCEPT ![Len(stack)] = f]

returned == SubSeq(stack, 1, Len(stack) - 1)

(* a root over four leaves that is full, and so is its last leaf: one more *)
(* key splits the leaf and then the root                                   *)
Brim ==
    [pgid |-> 8, ids |-> {},
     pages |-> [id \in 3..7 |->
        IF id = 3 THEN pageOf(3, FALSE, <<branchEntry(<<0>>, 4), branchEntry(<<0, 1>>, 5),
                                           branchEntry(<<0, 2>>, 6), branchEntry(<<0, 3>>, 7)>>)
        ELSE IF id = 4 THEN pageOf(4, TRUE, <<leafEntry(<<0>>)>>)
        ELSE IF id = 5 THEN pageOf(5, TRUE, <<leafEntry(<<0, 1>>)>>)
        ELSE IF id = 6 THEN pageOf(6, TRUE, <<leafEntry(<<0, 2>>)>>)
        ELSE pageOf(7, TRUE, <<leafEntry(<<0, 3>>), leafEntry(<<0, 4>>),
                               leafEntry(<<0, 5>>), leafEntry(<<0, 6>>)>>)]]

(* a root over two leaves, the second with the keys that can be deleted *)
Low ==
    [pgid |-> 6, ids |-> {},
     pages |-> [id \in 3..5 |->
        IF id = 3 THEN pageOf(3, FALSE, <<branchEntry(<<0>>, 4), branchInode(1, 5)>>)
        ELSE IF id = 4 THEN pageOf(4, TRUE, <<leafEntry(<<0>>)>>)
        ELSE pageOf(5, TRUE, <<leafInode(1), leafInode(2)>>)]]

(* three levels: a branch that is full over a last leaf that is full, and  *)
(* a first leaf with the one key that can be deleted                       *)
Deep ==
    [pgid |-> 12, ids |-> {},
     pages |-> [id \in 3..11 |->
        IF id = 3 THEN pageOf(3, FALSE, <<branchEntry(<<0>>, 4), branchInode(1, 5)>>)
        ELSE IF id = 4 THEN pageOf(4, FALSE, <<branchEntry(<<0>>, 6), branchEntry(<<0, 1>>, 7)>>)
        ELSE IF id = 5 THEN pageOf(5, FALSE, <<branchInode(1, 8), branchEntry(<<1, 1>>, 9),
                                                branchEntry(<<1, 2>>, 10),
                                                branchEntry(<<1, 3>>, 11)>>)
        ELSE IF id = 6 THEN pageOf(6, TRUE, <<leafEntry(<<0>>)>>)
        ELSE IF id = 7 THEN pageOf(7, TRUE, <<leafEntry(<<0, 1>>)>>)
        ELSE IF id = 8 THEN pageOf(8, TRUE, <<leafInode(1)>>)
        ELSE IF id = 9 THEN pageOf(9, TRUE, <<leafEntry(<<1, 1>>)>>)
        ELSE IF id = 10 THEN pageOf(10, TRUE, <<leafEntry(<<1, 2>>)>>)
        ELSE pageOf(11, TRUE, <<leafEntry(<<1, 3>>), leafEntry(<<1, 4>>),
                                leafEntry(<<1, 5>>), leafEntry(<<1, 6>>)>>)]]

StepsInit ==
    /\ NodeIdle
    /\ \E tree \in {Brim, Low, Deep} :
          Begun(rooted([tree |-> tree, pageSize |-> 60, FillPercent |-> 50]))
    /\ phase = "open"
    /\ slog = NoLog
    /\ calls = 0
    /\ edits = 0

StepPut(k) == edits < MaxStepEdits /\ BucketPut(k)

StepDelete(k) == edits < MaxStepEdits /\ BucketDelete(k)

(* the rebalance pass of commit, on the nodes that deletes marked *)
StepRebalance(id) == arena[id].unbalanced /\ Rebalance(id)

(* commit calls spill on the root *)
Commit ==
    /\ phase \in {"open", "rebalancing"}
    /\ phase' = "spilling"
    /\ stack' = <<frame(bucket.rootNode)>>
    /\ UNCHANGED <<arena, bucket, db, tx, slog, calls, edits>>
    /\ UNCHANGED aloneVars

Spilling == phase = "spilling" /\ stack # <<>>

(* what a call found: the spill goes on, or it ends in a panic or at the   *)
(* bound on the calls                                                      *)
Ended(how) ==
    /\ phase' = how
    /\ stack' = <<>>

(* return nil: the caller goes on; the spill is done when it was the call *)
(* commit made                                                            *)
Returned ==
    /\ stack' = returned
    /\ phase' = IF returned = <<>> THEN "done" ELSE phase

(* a spill that never takes a node for spilled *)
entersNever(nd) == FALSE

(* if n.spilled { return nil } *)
entersSpilled(nd) == nd.spilled

(* the head of spill: if n.spilled { return nil }; sort.Sort(n.children)   *)
SpillEnter ==
    /\ Spilling
    /\ top.pc = "enter"
    /\ IF calls >= MaxSpillCalls
       THEN Ended("cut") /\ UNCHANGED <<arena, calls>>
       ELSE IF entersSpilled(arena[top.node])
       THEN Returned /\ calls' = calls + 1 /\ UNCHANGED arena
       ELSE IF sortPanics(arena, arena[top.node].children)
       THEN Ended("panic") /\ calls' = calls + 1 /\ UNCHANGED arena
       ELSE /\ arena' = [arena EXCEPT ![top.node].children = sortNodes(arena, @, Len(@))]
            /\ stack' = moved([top EXCEPT !.pc = "children"])
            /\ calls' = calls + 1
            /\ UNCHANGED phase
    /\ UNCHANGED <<bucket, db, tx, slog, edits>>
    /\ UNCHANGED aloneVars

(* for i := 0; i < len(n.children); i++ { n.children[i].spill() }: the     *)
(* length is read at every turn                                            *)
SpillChild ==
    /\ Spilling
    /\ top.pc = "children"
    /\ top.i < Len(arena[top.node].children)
    /\ stack' = Append(moved([top EXCEPT !.i = @ + 1]),
                       frame(arena[top.node].children[top.i + 1]))
    /\ UNCHANGED treeVars
    /\ UNCHANGED aloneVars

(* n.children = nil, and split begins at n *)
SpillChildrenDone ==
    /\ Spilling
    /\ top.pc = "children"
    /\ ~(top.i < Len(arena[top.node].children))
    /\ arena' = [arena EXCEPT ![top.node].children = <<>>]
    /\ stack' = moved([top EXCEPT !.pc = "split", !.cur = top.node, !.nodes = <<>>])
    /\ UNCHANGED <<bucket, db, tx, phase, slog, calls, edits>>
    /\ UNCHANGED aloneVars

(* one turn of the loop of split: a, b := node.splitTwo(pageSize) *)
SplitTurn(two) ==
    /\ arena' = two.st.arena
    /\ tx' = two.st.tx
    /\ stack' = moved(IF two.b = 0
                      THEN [top EXCEPT !.pc = "nodes", !.nodes = Append(@, two.a), !.k = 1]
                      ELSE [top EXCEPT !.cur = two.b, !.nodes = Append(@, two.a)])

SpillSplit ==
    /\ Spilling
    /\ top.pc = "split"
    /\ \E two \in {splitTwo(State, top.cur, db.pageSize)} : SplitTurn(two)
    /\ UNCHANGED <<bucket, db, phase, slog, calls, edits>>
    /\ UNCHANGED aloneVars

(* one turn of the loop over the nodes of split: free, allocate, write,    *)
(* put into the parent                                                     *)
NodeTurn(s) ==
    /\ arena' = s.arena
    /\ bucket' = s.bucket
    /\ db' = s.db
    /\ tx' = s.tx
    /\ slog' = s.log
    /\ IF s.status = "ok"
       THEN stack' = moved([top EXCEPT !.k = @ + 1]) /\ UNCHANGED phase
       ELSE Ended(s.status)

SpillNode(mapOk) ==
    /\ Spilling
    /\ top.pc = "nodes"
    /\ top.k <= Len(top.nodes)
    /\ \E s \in {spillNode([State EXCEPT !.mapOk = mapOk, !.log = slog], top.nodes[top.k])} :
          NodeTurn(s)
    /\ UNCHANGED <<calls, edits>>
    /\ UNCHANGED aloneVars

(* the end of spill: return n.parent.spill() for a parent that split made, *)
(* or return nil                                                           *)
SpillTail ==
    /\ Spilling
    /\ top.pc = "nodes"
    /\ top.k > Len(top.nodes)
    /\ IF arena[top.node].parent # 0 /\ arena[arena[top.node].parent].pgid = 0
       THEN /\ arena' = [arena EXCEPT ![top.node].children = <<>>]
            /\ stack' = moved(frame(arena[top.node].parent))
            /\ UNCHANGED phase
       ELSE Returned /\ UNCHANGED arena
    /\ UNCHANGED <<bucket, db, tx, slog, calls, edits>>
    /\ UNCHANGED aloneVars

StepKeys == 1..MaxStepKey

(* a call of spill that is running takes its next step *)
SpillStep ==
    \/ SpillEnter
    \/ SpillChild
    \/ SpillChildrenDone
    \/ SpillSplit
    \/ \E mapOk \in BOOLEAN : SpillNode(mapOk)
    \/ SpillTail

StepsNext ==
    \/ \E k \in StepKeys : StepPut(k)
    \/ \E k \in StepKeys : StepDelete(k)
    \/ \E id \in 1..Len(arena) : StepRebalance(id)
    \/ Commit
    \/ SpillEnter
    \/ SpillChild
    \/ SpillChildrenDone
    \/ SpillSplit
    \/ \E mapOk \in BOOLEAN : SpillNode(mapOk)
    \/ SpillTail

SpecSteps == StepsInit /\ [][StepsNext]_vars

(* the program runs on: a call of spill that can take a step takes it *)
SpecStepsFair == SpecSteps /\ WF_vars(SpillStep)

(* the calls of rebalance go up: a call goes on to the parent of its node  *)
(* or returns, and a call on a node without a parent returns               *)
goesUp(r) ==
    /\ r.next # 0 => r.next = rebalanced(r).parent
    /\ rebalanced(r).parent = 0 => r.next = 0

(* what a spill that returned came to *)
ended == phase \in {"done", "error", "panic"}

(* C37: spill on a tree terminates: once commit has called it, the loop    *)
(* over the children, which reads their number at every turn, the loop of  *)
(* split, the loop over the nodes split returned and the call on a new     *)
(* root all come to an end, within the bound on the calls; and a call of   *)
(* rebalance goes on to the parent of its node only, and returns at a node *)
(* without a parent.                                                       *)
C37_SpillAndRebalanceTerminate ==
    /\ [](phase # "cut")
    /\ [](\A i \in 1..Len(slog.rebalances) : goesUp(slog.rebalances[i]))
    /\ (phase = "spilling") ~> ended

(* a spill returned nil after a child split, the loop over the children    *)
(* went on to the sibling it made, the root split and the new root was     *)
(* spilled                                                                 *)
C37_Witness ==
    /\ phase = "done"
    /\ tx.stats.Split >= 2
    /\ arena[bucket.rootNode].parent # 0
    /\ arena[arena[bucket.rootNode].parent].spilled
    /\ calls >= 6

===========================================================================
